---- MODULE Spec2Model ----
(***************************************************************************)
(* Model of the Nokia gateway core: TokenManager (token_manager.py),       *)
(* AlarmSubscription (alarm_subscription.py), NokiaKafkaConsumer           *)
(* (kafka_consumer.py) and AlarmManager (alarm_manager.py).                *)
(*                                                                         *)
(* Python values are tagged records so that None, strings and numbers can  *)
(* be stored in the same field, as in the code.                            *)
(***************************************************************************)
EXTENDS Integers, Sequences, FiniteSets, TLC

VARIABLES
    tm,        \* TokenManager: the credential fields
    now,       \* datetime.now(), in seconds
    sub,       \* AlarmSubscription: subscription_id, topic_id, expires_at
    kc,        \* NokiaKafkaConsumer, its worker thread and what it was handed
    am,        \* AlarmManager, its renewal worker and the caller's position
    cls,       \* the TokenManager class: _instance, _lock, threads in __new__
    th,        \* _token_lock and the threads inside TokenManager's methods
    last       \* the last call made: operation, response seen, outcome

vars == <<tm, now, sub, kc, am, cls, th, last>>

\* ---------------------------------------------------------------- bounds

\* The clock runs from 0 to MaxNow.
MaxNow == 2

\* ---------------------------------------------------------- Python values

None == [t |-> "null"]
Num(n) == [t |-> "num", n |-> n]
Str(s) == [t |-> "str", s |-> s]
\* A JSON object, by the number of its keys.
Dict(name, size) == [t |-> "dict", s |-> name, n |-> size]
\* A key that a JSON object does not hold.
Absent == [t |-> "absent"]

\* Python truthiness of a value (`if x:` / `not x`).
Truthy(v) ==
    CASE v.t = "null" -> FALSE
      [] v.t = "str" -> v.s # ""
      [] v.t = "num" -> v.n # 0
      [] v.t = "dict" -> v.n # 0
      [] OTHER -> FALSE

\* dict.get(key, default): the default only when the key is absent.
DictGet(d, key, default) == IF d[key] = Absent THEN default ELSE d[key]

\* ------------------------------------------------------------ TokenManager

\* is_token_valid treats a token as expired this long before its expiry.
ValidityMargin == 60
\* token_data.get('expires_in', 3600)
DefaultExpiresIn == 3600

\* The fields __init__ sets, the position of the auto-refresh worker (apc),
\* the calls of its current cycle in order (acycle), and where the caller of
\* stop_auto_refresh() is.
TokenManagerInit ==
    [access_token |-> None,
     refresh_token |-> None,
     token_type |-> Str("Bearer"),
     expires_in |-> Num(DefaultExpiresIn),
     token_expiry |-> None,
     refresh_thread |-> "None",
     stop_event |-> FALSE,
     apc |-> "none",
     acycle |-> << >>,
     caller |-> "idle"]

\* What the token endpoint may answer.
AccessTokens == {Absent, Str("T1"), Str("T2")}
RefreshTokens == {Absent, Str("R1"), Str("R2")}
TokenTypes == {Absent, Str("MAC")}
ExpiresIns == {Absent, Num(60), Num(61), Str("abc")}

TokenBodies ==
    [access_token : AccessTokens,
     refresh_token : RefreshTokens,
     token_type : TokenTypes,
     expires_in : ExpiresIns]

\* transport_error: requests.post raises (connection, timeout);
\* http_error: raise_for_status raises HTTPError for the status;
\* bad_json: response.json() raises; not_object: the body is JSON but no object;
\* ok: a JSON object.
TokenResponses ==
    {[kind |-> "transport_error"], [kind |-> "bad_json"], [kind |-> "not_object"]}
    \cup {[kind |-> "http_error", status |-> s] : s \in {401, 500}}
    \cup {[kind |-> "ok", body |-> b] : b \in TokenBodies}

\* The `with self._token_lock:` block of get_initial_token and of
\* refresh_access_token: five assignments in order; timedelta(seconds=...)
\* raises TypeError for a value that is no number, after the first four.
InstallCredential(t, body, clock) ==
    LET t4 == [t EXCEPT
                 !.access_token = DictGet(body, "access_token", None),
                 !.refresh_token = DictGet(body, "refresh_token", None),
                 !.token_type = DictGet(body, "token_type", Str("Bearer")),
                 !.expires_in = DictGet(body, "expires_in", Num(DefaultExpiresIn))]
    IN  IF t4.expires_in.t = "num"
        THEN [tm |-> [t4 EXCEPT !.token_expiry = Num(clock + t4.expires_in.n)],
              exc |-> "none"]
        ELSE [tm |-> t4, exc |-> "TypeError"]

\* The request and the handling of its response, shared by both exchanges.
TokenExchange(t, resp, clock) ==
    CASE resp.kind = "transport_error" -> [tm |-> t, exc |-> "RequestException"]
      [] resp.kind = "http_error" -> [tm |-> t, exc |-> "HTTPError"]
      [] resp.kind = "bad_json" -> [tm |-> t, exc |-> "JSONDecodeError"]
      [] resp.kind = "not_object" -> [tm |-> t, exc |-> "AttributeError"]
      [] OTHER -> InstallCredential(t, resp.body, clock)

\* The response a call saw, or that it sent no request.
NotSent == [kind |-> "not_sent"]

get_initial_token(t, resp, clock) ==
    LET r == TokenExchange(t, resp, clock)
    IN  [tm |-> r.tm, exc |-> r.exc, resp |-> resp]

\* A refresh that sends its request whatever refresh token it holds.
refresh_access_token_Unguarded(t, resp, clock) ==
    LET r == TokenExchange(t, resp, clock)
    IN  [tm |-> r.tm, exc |-> r.exc, resp |-> resp]

\* refresh_access_token: no request without a refresh token.
refresh_access_token(t, resp, clock) ==
    IF ~Truthy(t.refresh_token)
    THEN [tm |-> t, exc |-> "ValueError", resp |-> NotSent]
    ELSE LET r == TokenExchange(t, resp, clock)
         IN  [tm |-> r.tm, exc |-> r.exc, resp |-> resp]

\* The comparison with the margin taken as part of the validity window.
is_token_valid_Inclusive(t, clock) ==
    IF ~Truthy(t.access_token) \/ ~Truthy(t.token_expiry)
    THEN FALSE
    ELSE clock <= t.token_expiry.n - ValidityMargin

is_token_valid(t, clock) ==
    IF ~Truthy(t.access_token) \/ ~Truthy(t.token_expiry)
    THEN FALSE
    ELSE clock < t.token_expiry.n - ValidityMargin

\* A value as an f-string prints it.
Format(v) ==
    CASE v.t = "str" -> v.s
      [] v.t = "num" -> ToString(v.n)
      [] OTHER -> "None"

\* A header that takes every token for a Bearer token.
get_authorization_header_Bearer(t) ==
    IF ~Truthy(t.access_token)
    THEN [exc |-> "ValueError", header |-> None]
    ELSE [exc |-> "none", header |-> Str("Bearer " \o Format(t.access_token))]

\* get_authorization_header: the value of the Authorization key.
get_authorization_header(t) ==
    IF ~Truthy(t.access_token)
    THEN [exc |-> "ValueError", header |-> None]
    ELSE [exc |-> "none",
          header |-> Str(Format(t.token_type) \o " " \o Format(t.access_token))]

\* start_auto_refresh: nothing while the refresh thread is alive.
start_auto_refresh(t) ==
    IF t.refresh_thread = "alive"
    THEN t
    ELSE [t EXCEPT !.stop_event = FALSE,
                   !.refresh_thread = "alive",
                   !.apc = "wait",
                   !.acycle = << >>]

\* requests.Response.__bool__ is Response.ok: false for a status from 400 on.
ResponseBool(resp) == resp.status < 400

\* The wait of _auto_refresh_worker: out of the loop on the stop signal, into
\* a cycle on the timeout.
auto_refresh_wake(t) ==
    IF t.stop_event
    THEN [t EXCEPT !.refresh_thread = "dead", !.apc = "none", !.acycle = << >>]
    ELSE [t EXCEPT !.apc = "cycle", !.acycle = << >>]

\* One cycle of _auto_refresh_worker: refresh_access_token(), and in the
\* handler of its HTTPError get_initial_token() if `e.response and
\* e.response.status_code in [400, 401]`; every error is logged.
auto_refresh_cycle(t, resp, resp2, clock) ==
    LET r == refresh_access_token(t, resp, clock)
        g == get_initial_token(r.tm, resp2, clock)
    IN  IF r.exc = "none"
        THEN [tm |-> [r.tm EXCEPT !.apc = "wait",
                                  !.acycle = <<"refresh_call", "refresh_return">>],
              exc |-> r.exc, resp |-> r.resp]
        ELSE IF r.exc = "HTTPError" /\ ResponseBool(resp) /\ resp.status \in {400, 401}
        THEN [tm |-> [g.tm EXCEPT !.apc = "wait",
                                  !.acycle = <<"refresh_call", "refresh_raise",
                                               "get_initial_token_call",
                                               IF g.exc = "none"
                                               THEN "get_initial_token_return"
                                               ELSE "get_initial_token_raise">>],
              exc |-> r.exc, resp |-> r.resp]
        ELSE [tm |-> [r.tm EXCEPT !.apc = "wait",
                                  !.acycle = <<"refresh_call", "refresh_raise">>],
              exc |-> r.exc, resp |-> r.resp]

\* A join that waits for the end of the thread however long it takes.
join_Forever(alive, timeout_over) == ~alive

\* thread.join(timeout=5) as the three stop operations call it: the call is
\* over when the thread has ended or when the five seconds have passed.
join(alive, timeout_over) == ~alive \/ timeout_over

\* stop_auto_refresh up to the join: nothing without a live thread.
stop_auto_refresh(t) ==
    IF t.refresh_thread # "None" /\ t.refresh_thread = "alive"
    THEN [t EXCEPT !.stop_event = TRUE, !.caller = "joining"]
    ELSE t

\* initialize(): the initial token, then the refresh thread; an error of the
\* first is raised again.
token_manager_initialize(t, resp, clock) ==
    LET r == get_initial_token(t, resp, clock)
    IN  IF r.exc # "none"
        THEN r
        ELSE [tm |-> start_auto_refresh(r.tm), exc |-> "none", resp |-> resp]

BoolStr(b) == IF b THEN "True" ELSE "False"

\* --------------------------------------------- the gateway's read endpoint

\* What the upstream API may do with the trail request: no answer in thirty
\* seconds, no connection, an answer with a status, a 200 whose body is no
\* JSON.
UpstreamResponses ==
    {[kind |-> "timeout"], [kind |-> "connection_error"], [kind |-> "bad_json"]}
    \cup {[kind |-> "status", status |-> c] : c \in {200, 400, 401, 403, 404, 500, 503}}

\* The status get_trail_list answers with once the request has been made.
\* json_is_request_exception: whether the installed requests raises its own
\* JSONDecodeError (a RequestException) or the json module's (a ValueError).
upstream_status(up, json_is_request_exception) ==
    CASE up.kind = "timeout" -> 504
      [] up.kind = "connection_error" -> 502
      [] up.kind = "bad_json" -> IF json_is_request_exception THEN 502 ELSE 500
      [] up.status = 401 -> 401
      [] up.status = 404 -> 404
      [] up.status >= 500 -> 502
      [] up.status >= 400 -> 502
      [] OTHER -> 200

\* get_trail_list: a refresh when the token is not valid (any error of it is
\* a 503), the authorization header (its ValueError is no HTTPException and
\* no RequestException: a 500), then the request.
get_trail_list(t, clock, refresh_resp, up, json_is_request_exception) ==
    LET r == IF is_token_valid(t, clock)
             THEN [tm |-> t, exc |-> "none", resp |-> NotSent]
             ELSE refresh_access_token(t, refresh_resp, clock)
    IN  IF r.exc # "none"
        THEN [tm |-> r.tm, status |-> 503, stage |-> "refresh", up |-> NotSent]
        ELSE IF get_authorization_header(r.tm).exc # "none"
        THEN [tm |-> r.tm, status |-> 500, stage |-> "header", up |-> NotSent]
        ELSE [tm |-> r.tm, status |-> upstream_status(up, json_is_request_exception),
              stage |-> "upstream", up |-> up]

\* ------------------------------------------- TokenManager.__new__, the class

\* The threads that construct TokenManager().
NumThreads == 3
Threads == 1..NumThreads

\* The class attributes _instance and _lock (0: None, free), the number of
\* objects super().__new__ has made, and of each thread its place in __new__
\* and the instance its last construction returned (0: none yet). Of
\* __init__ on the shared instance: the place of each thread in it (ipc),
\* whether the attribute _initialized is there, how many times the fields
\* were initialised (inits), whether a credential is stored, and whether an
\* initialisation has wiped a stored credential (reset).
TokenManagerClassInit ==
    [instance |-> 0,
     lock |-> 0,
     objects |-> 0,
     pc |-> [t \in Threads |-> "idle"],
     got |-> [t \in Threads |-> 0],
     ipc |-> [t \in Threads |-> "none"],
     initialized |-> FALSE,
     inits |-> 0,
     credential |-> FALSE,
     reset |-> FALSE]

\* `if cls._instance is None:` outside the lock.
new_check1(c, t) ==
    [c EXCEPT !.pc[t] = IF c.instance = 0 THEN "acquire" ELSE "return"]

\* `with cls._lock:` entered.
new_acquire(c, t) == [c EXCEPT !.lock = t, !.pc[t] = "check2"]

\* A __new__ that does not look again once it holds the lock.
new_check2_Unchecked(c, t) == [c EXCEPT !.pc[t] = "create"]

\* `if cls._instance is None:` under the lock.
new_check2(c, t) ==
    [c EXCEPT !.pc[t] = IF c.instance = 0 THEN "create" ELSE "release"]

\* `cls._instance = super().__new__(cls)`: a new object.
new_create(c, t) ==
    [c EXCEPT !.objects = @ + 1, !.instance = c.objects + 1, !.pc[t] = "release"]

\* The end of the with block.
new_release(c, t) == [c EXCEPT !.lock = 0, !.pc[t] = "return"]

\* `return cls._instance`
new_return(c, t) == [c EXCEPT !.got[t] = c.instance, !.pc[t] = "idle"]

\* `return cls._instance`, after which TokenManager() calls __init__.
new_return_init(c, t) == [new_return(c, t) EXCEPT !.ipc[t] = "check"]

\* __init__, lines 41-43: `if hasattr(self, '_initialized'): return`. No lock
\* is taken.
init_check(c, t) ==
    [c EXCEPT !.ipc[t] = IF c.initialized THEN "none" ELSE "fields"]

\* __init__, lines 45-64: the fields are set, the credential fields to None,
\* the stop signal, the thread reference and the token lock to new objects,
\* and then _initialized.
init_fields(c, t) ==
    [c EXCEPT !.inits = @ + 1,
              !.credential = FALSE,
              !.reset = @ \/ c.credential,
              !.initialized = TRUE,
              !.ipc[t] = "none"]

\* get_initial_token() on the initialised instance stores a credential.
store_credential(c) == [c EXCEPT !.credential = TRUE]

\* --------------------------------------------- TokenManager, the token lock

\* The threads that call TokenManager's methods at the same time.
NumCallers == 2
Callers == 1..NumCallers

Acq(line) == [k |-> "acquire", f |-> "_token_lock", line |-> line]
Rel(line) == [k |-> "release", f |-> "_token_lock", line |-> line]
Rd(f, line) == [k |-> "read", f |-> f, line |-> line]
Wr(f, line) == [k |-> "write", f |-> f, line |-> line]

\* An installation of a credential that does not take the lock.
InstallSteps_Unlocked(first) ==
    <<Wr("access_token", first + 1),
      Wr("refresh_token", first + 2),
      Wr("token_type", first + 3),
      Wr("expires_in", first + 4),
      Rd("expires_in", first + 5),
      Wr("token_expiry", first + 5)>>

\* The statements of `with self._token_lock:` that install a credential.
InstallSteps(first) ==
    <<Acq(first),
      Wr("access_token", first + 1),
      Wr("refresh_token", first + 2),
      Wr("token_type", first + 3),
      Wr("expires_in", first + 4),
      Rd("expires_in", first + 5),
      Wr("token_expiry", first + 5),
      Rel(first + 5)>>

\* What each path through a method does with the lock and with the
\* credential fields, in the order of the code.
TokenManagerPaths ==
    [get_initial_token |->
        InstallSteps(107) \o
        <<Rd("token_type", 115), Rd("expires_in", 116), Rd("expires_in", 116),
          Rd("token_expiry", 117)>>,
     get_initial_token_failed |-> << >>,
     refresh_access_token |->
        <<Acq(133), Rd("refresh_token", 134), Rel(134)>> \o
        InstallSteps(162) \o
        <<Rd("token_expiry", 170)>>,
     refresh_access_token_failed |->
        <<Acq(133), Rd("refresh_token", 134), Rel(134)>>,
     get_authorization_header |->
        <<Acq(188), Rd("access_token", 189), Rd("token_type", 193),
          Rd("access_token", 193), Rel(194)>>,
     get_authorization_header_failed |->
        <<Acq(188), Rd("access_token", 189), Rel(190)>>,
     is_token_valid |->
        <<Acq(267), Rd("access_token", 268), Rd("token_expiry", 268),
          Rd("token_expiry", 272), Rel(272)>>,
     is_token_valid_no_token |->
        <<Acq(267), Rd("access_token", 268), Rel(269)>>]

PathNames == DOMAIN TokenManagerPaths

\* The credential fields, and the paths that install a credential.
CredentialFields ==
    {"access_token", "refresh_token", "token_type", "expires_in", "token_expiry"}

InstallPaths == {"get_initial_token", "refresh_access_token"}

\* The token endpoint issues at most MaxIssued credentials.
MaxIssued == 4

\* With the values: fields says of which credential each field holds the
\* value (0: what __init__ set), cred[t] is the credential the call of
\* thread t was answered with, and seen[t] what that call has read of each
\* field (-1: nothing yet).
\* The lock (0: free), where each caller is, and the last access to a
\* credential field with whether its thread held the lock. For concurrent
\* refreshes: the credentials are numbered in the order the token endpoint
\* issues them (issued: the last one; 0: none yet), stored is the one the
\* fields hold, and ref[t] is the refresh_access_token() call of thread t:
\* its place, the refresh token it read (the number of its credential) and
\* the credential it was answered with.
TokenLockInit ==
    [token_lock |-> 0,
     run |-> [t \in Callers |-> [path |-> "none", i |-> 0]],
     access |-> [thread |-> 0, f |-> "none", k |-> "none", line |-> 0, held |-> TRUE],
     issued |-> 0,
     stored |-> 0,
     ref |-> [t \in Callers |-> [pc |-> "idle", token |-> 0, resp |-> 0]],
     fields |-> [f \in CredentialFields |-> 0],
     cred |-> [t \in Callers |-> 0],
     seen |-> [t \in Callers |-> [f \in CredentialFields |-> -1]]]

\* The step the caller t is at, if it has one left.
AtStep(h, t) ==
    /\ h.run[t].path # "none"
    /\ h.run[t].i <= Len(TokenManagerPaths[h.run[t].path])

StepOf(h, t) == TokenManagerPaths[h.run[t].path][h.run[t].i]

lock_acquire(h, t) == [h EXCEPT !.token_lock = t, !.run[t].i = @ + 1]

lock_release(h, t) == [h EXCEPT !.token_lock = 0, !.run[t].i = @ + 1]

\* The first acquisition of the process: credential number issued + 1.
first_token(h) == [h EXCEPT !.issued = @ + 1, !.stored = h.issued + 1]

\* refresh_access_token: `current_refresh_token = self.refresh_token` under
\* the lock, and ValueError without one.
refresh_read(h, t) ==
    IF h.stored = 0
    THEN h
    ELSE [h EXCEPT !.ref[t] = [pc |-> "send", token |-> h.stored, resp |-> 0]]

\* The request with the token read, outside the lock: the token endpoint
\* issues the next credential.
refresh_send(h, t) ==
    [h EXCEPT !.issued = @ + 1, !.ref[t].resp = h.issued + 1, !.ref[t].pc = "install"]

\* The second `with self._token_lock:` block: the answer is stored.
refresh_install(h, t) ==
    [h EXCEPT !.stored = h.ref[t].resp,
              !.ref[t] = [pc |-> "idle", token |-> 0, resp |-> 0]]

field_access(h, t) ==
    [h EXCEPT !.access = [thread |-> t, f |-> StepOf(h, t).f, k |-> StepOf(h, t).k,
                          line |-> StepOf(h, t).line, held |-> h.token_lock = t],
              !.run[t].i = @ + 1]

\* The call of a method by thread t: a path that installs a credential is
\* answered with the next one the token endpoint issues.
method_call(h, t, path) ==
    [h EXCEPT !.run[t] = [path |-> path, i |-> 1],
              !.issued = IF path \in InstallPaths THEN @ + 1 ELSE @,
              !.cred[t] = IF path \in InstallPaths THEN h.issued + 1 ELSE 0,
              !.seen[t] = [f \in CredentialFields |-> -1]]

\* The return of the call of thread t, with which its locals are gone.
method_return(h, t) ==
    [h EXCEPT !.run[t] = [path |-> "none", i |-> 0],
              !.cred[t] = 0,
              !.seen[t] = [f \in CredentialFields |-> -1]]

\* A read or a write with its value: a write stores the value of the
\* call's credential, a read takes what the field holds.
field_access_value(h, t) ==
    LET a == [h EXCEPT !.run[t].i = @ + 1]
        f == StepOf(h, t).f
    IN  IF StepOf(h, t).k = "write"
        THEN [a EXCEPT !.fields[f] = h.cred[t]]
        ELSE [a EXCEPT !.seen[t][f] = h.fields[f]]

\* -------------------------------------------------------- AlarmSubscription

\* The fields __init__ sets.
AlarmSubscriptionInit ==
    [subscription_id |-> None, topic_id |-> None, expires_at |-> None]

\* What the subscription endpoint may answer to a create.
SubscriptionIds == {Absent, Str("S1"), Str("S2")}
TopicIds == {Absent, Str("Top1"), Str("Top2")}
ExpiresAts == {Absent, Num(3400)}

\* enveloped: the data sits under response.data.
SubscriptionBodies ==
    [enveloped : BOOLEAN,
     subscriptionId : SubscriptionIds,
     topicId : TopicIds,
     expiresAt : ExpiresAts]

CreateResponses ==
    {[kind |-> "transport_error"], [kind |-> "bad_json"], [kind |-> "not_object"]}
    \cup {[kind |-> "http_error", status |-> s] : s \in {401, 500}}
    \cup {[kind |-> "ok", body |-> b] : b \in SubscriptionBodies}

\* A renew or a delete reads the status of the answer only.
StatusResponses ==
    {[kind |-> "transport_error"], [kind |-> "ok"]}
    \cup {[kind |-> "http_error", status |-> s] : s \in {401, 404, 500}}

\* create_subscription: the header first (its ValueError is no
\* RequestException and passes through), then the request; both shapes of the
\* body are unwrapped to the same data.
create_subscription(a, t, resp) ==
    IF get_authorization_header(t).exc # "none"
    THEN [sub |-> a, ret |-> "raised", exc |-> "ValueError", resp |-> NotSent]
    ELSE CASE resp.kind = "transport_error" ->
                [sub |-> a, ret |-> "raised", exc |-> "RequestException", resp |-> resp]
           [] resp.kind = "http_error" ->
                [sub |-> a, ret |-> "raised", exc |-> "HTTPError", resp |-> resp]
           [] resp.kind = "bad_json" ->
                [sub |-> a, ret |-> "raised", exc |-> "JSONDecodeError", resp |-> resp]
           [] resp.kind = "not_object" ->
                [sub |-> a, ret |-> "raised", exc |-> "AttributeError", resp |-> resp]
           [] OTHER ->
                [sub |-> [subscription_id |-> DictGet(resp.body, "subscriptionId", None),
                          topic_id |-> DictGet(resp.body, "topicId", None),
                          expires_at |-> DictGet(resp.body, "expiresAt", None)],
                 ret |-> "dict", exc |-> "none", resp |-> resp]

\* A renew that sends its request whatever id it holds.
renew_subscription_Unguarded(a, t, resp) ==
    IF get_authorization_header(t).exc # "none"
    THEN [sub |-> a, ret |-> "raised", exc |-> "ValueError", resp |-> NotSent]
    ELSE [sub |-> a, ret |-> BoolStr(resp.kind = "ok"), exc |-> "none", resp |-> resp]

\* renew_subscription: changes no field.
renew_subscription(a, t, resp) ==
    IF ~Truthy(a.subscription_id)
    THEN [sub |-> a, ret |-> "False", exc |-> "none", resp |-> NotSent]
    ELSE IF get_authorization_header(t).exc # "none"
    THEN [sub |-> a, ret |-> "raised", exc |-> "ValueError", resp |-> NotSent]
    ELSE IF resp.kind = "ok"
    THEN [sub |-> a, ret |-> "True", exc |-> "none", resp |-> resp]
    ELSE [sub |-> a, ret |-> "False", exc |-> "none", resp |-> resp]

\* A delete that forgets the subscription whatever the answer.
delete_subscription_Forgets(a, t, resp) ==
    IF ~Truthy(a.subscription_id)
    THEN [sub |-> a, ret |-> "False", exc |-> "none", resp |-> NotSent]
    ELSE IF get_authorization_header(t).exc # "none"
    THEN [sub |-> a, ret |-> "raised", exc |-> "ValueError", resp |-> NotSent]
    ELSE [sub |-> AlarmSubscriptionInit,
          ret |-> BoolStr(resp.kind = "ok"), exc |-> "none", resp |-> resp]

\* delete_subscription: the fields are reset after raise_for_status passed.
delete_subscription(a, t, resp) ==
    IF ~Truthy(a.subscription_id)
    THEN [sub |-> a, ret |-> "False", exc |-> "none", resp |-> NotSent]
    ELSE IF get_authorization_header(t).exc # "none"
    THEN [sub |-> a, ret |-> "raised", exc |-> "ValueError", resp |-> NotSent]
    ELSE IF resp.kind = "ok"
    THEN [sub |-> AlarmSubscriptionInit, ret |-> "True", exc |-> "none", resp |-> resp]
    ELSE [sub |-> a, ret |-> "False", exc |-> "none", resp |-> resp]

\* renew_subscription, line 122: the check of the identifier.
renew_check(a, s) ==
    IF ~Truthy(s.subscription_id)
    THEN [a EXCEPT !.renew = [pc |-> "none", checked |-> None, url_id |-> ""]]
    ELSE [a EXCEPT !.renew = [pc |-> "url", checked |-> s.subscription_id,
                              url_id |-> ""]]

\* renew_subscription, line 126: the url, for which self.subscription_id is
\* read again.
renew_url(a, s) ==
    [a EXCEPT !.renew.pc = "request", !.renew.url_id = Format(s.subscription_id)]

\* renew_subscription, lines 132-150: the header, whose ValueError leaves the
\* method, and the request.
renew_request(a, t) ==
    [am |-> [a EXCEPT !.renew.pc = "none"],
     sent |-> get_authorization_header(t).exc = "none"]

get_subscription_info(a) ==
    [subscriptionId |-> a.subscription_id,
     topicId |-> a.topic_id,
     expiresAt |-> a.expires_at]

\* ------------------------------------------------------- NokiaKafkaConsumer

\* The worker is handed at most MaxMessages messages.
MaxMessages == 3

\* The threads that call start_consuming() and stop_consuming() at the same
\* time, and the number of worker threads ever started.
NumStarters == 2
Starters == 1..NumStarters

MaxStarted == 3

\* For calls made at the same time, the worker threads are numbered in the
\* order they are started: live is the set of those that have not ended,
\* thread_ref the one self.consumer_thread refers to (0: None), started the
\* number started, and starter[t] the place of thread t in start_consuming().
\* The fields __init__ sets, the position of the worker thread (wpc), and the
\* record of what the broker delivered and of what the handlers were given:
\* delivered[i] is the message at offset i (its bytes, and whether the stop
\* signal was set when it arrived), calls the handler events in order, running
\* the handler calls that have not returned.
NokiaKafkaConsumerInit ==
    [consumer |-> "None",
     consumer_thread |-> "None",
     wpc |-> "none",
     stop_event |-> FALSE,
     message_handler |-> "None",
     topic_id |-> None,
     caller |-> "idle",
     delivered |-> << >>,
     calls |-> << >>,
     running |-> {},
     live |-> {},
     thread_ref |-> 0,
     started |-> 0,
     starter |-> [t \in Starters |-> "idle"]]

\* The bytes of a message: an alarm, an empty JSON object, no bytes at all, and
\* bytes that are no JSON.
RawMessages == {"alarm", "empty_object", "no_bytes", "not_json"}

\* value_deserializer: json.loads(m.decode('utf-8')) if m else None.
value_deserializer(raw) ==
    CASE raw = "no_bytes" -> [exc |-> "none", value |-> None]
      [] raw = "not_json" -> [exc |-> "JSONDecodeError", value |-> None]
      [] raw = "empty_object" -> [exc |-> "none", value |-> Dict(raw, 0)]
      [] OTHER -> [exc |-> "none", value |-> Dict(raw, 1)]

consumer_thread_is_alive(k) == k.consumer_thread = "alive"

is_consuming(k) == k.consumer_thread # "None" /\ consumer_thread_is_alive(k)

\* set_message_handler: the assignment, then a log line that reads
\* handler.__name__, which a callable without a name ("unnamed") fails on.
set_message_handler(k, handler) ==
    [kc |-> [k EXCEPT !.message_handler = handler],
     exc |-> IF handler = "unnamed" THEN "AttributeError" ELSE "none"]

\* A start_consuming that builds a consumer and a worker whatever is running.
start_consuming_Restart(k, topic, created) ==
    IF ~created
    THEN [kc |-> [k EXCEPT !.topic_id = topic], exc |-> "Exception", started |-> FALSE]
    ELSE [kc |-> [k EXCEPT !.topic_id = topic,
                           !.consumer = "open",
                           !.stop_event = FALSE,
                           !.consumer_thread = "alive",
                           !.wpc = "iter"],
          exc |-> "none", started |-> TRUE]

\* create_consumer sets topic_id before anything may fail.
\* start_consuming: nothing while the worker is alive; created = FALSE is a
\* failure to build the SSL context or the KafkaConsumer, which is raised.
start_consuming(k, topic, created) ==
    IF k.consumer_thread # "None" /\ consumer_thread_is_alive(k)
    THEN [kc |-> k, exc |-> "none", started |-> FALSE]
    ELSE IF ~created
    THEN [kc |-> [k EXCEPT !.topic_id = topic], exc |-> "Exception", started |-> FALSE]
    ELSE [kc |-> [k EXCEPT !.topic_id = topic,
                           !.consumer = "open",
                           !.stop_event = FALSE,
                           !.consumer_thread = "alive",
                           !.wpc = "iter"],
          exc |-> "none", started |-> TRUE]

\* stop_consuming up to the join: the stop signal, then close(), whose error is
\* logged (closed = FALSE: close() raised and the connection stays as it was).
stop_consuming_signal(k, closed) ==
    [k EXCEPT !.stop_event = TRUE,
              !.consumer = IF k.consumer # "None" /\ closed THEN "closed" ELSE @,
              !.caller = "joining"]

\* A stop_consuming that signals and closes whatever is running.
stop_consuming_Unguarded(k, closed) == stop_consuming_signal(k, closed)

\* stop_consuming up to the join: a return at once without a live worker.
stop_consuming(k, closed) ==
    IF k.consumer_thread = "None" \/ ~consumer_thread_is_alive(k)
    THEN k
    ELSE stop_consuming_signal(k, closed)

\* start_consuming, lines 114-116: the check of the thread
\* self.consumer_thread refers to. No lock is taken.
start_check(k, t) ==
    IF k.thread_ref # 0 /\ k.thread_ref \in k.live
    THEN k
    ELSE [k EXCEPT !.starter[t] = "create"]

\* start_consuming, lines 118-129: the consumer, the stop signal cleared, and
\* a new worker thread, to which self.consumer_thread now refers.
start_thread(k, t) ==
    [k EXCEPT !.stop_event = FALSE,
              !.started = @ + 1,
              !.thread_ref = k.started + 1,
              !.live = @ \cup {k.started + 1},
              !.starter[t] = "idle"]

\* stop_consuming, lines 200-205, on the thread self.consumer_thread refers to.
stop_signal(k) ==
    IF k.thread_ref = 0 \/ k.thread_ref \notin k.live
    THEN k
    ELSE [k EXCEPT !.stop_event = TRUE]

\* The end of the worker thread w.
worker_ends(k, w) == [k EXCEPT !.live = @ \ {w}]

\* The end of the worker thread (the finally clause of _consume_worker).
worker_exits(k) == [k EXCEPT !.consumer_thread = "dead", !.wpc = "none"]

\* A handler call the worker does not wait for.
dispatch_Async(k, offset) ==
    LET h == IF k.message_handler # "None" THEN "custom" ELSE "default"
    IN  [k EXCEPT !.calls = Append(@, [offset |-> offset, ev |-> "call", handler |-> h]),
                  !.running = @ \cup {[offset |-> offset, handler |-> h]}]

\* The handler call of lines 165-169, which the worker waits for.
dispatch(k, offset) ==
    LET h == IF k.message_handler # "None" THEN "custom" ELSE "default"
    IN  [k EXCEPT !.calls = Append(@, [offset |-> offset, ev |-> "call", handler |-> h]),
                  !.running = @ \cup {[offset |-> offset, handler |-> h]},
                  !.wpc = "handler"]

\* A worker whose handler's exception ends the loop.
after_handler_Propagates(k, outcome) ==
    IF outcome = "raise" THEN worker_exits(k) ELSE [k EXCEPT !.wpc = "iter"]

\* The worker after its handler call ended: a return and a raised exception
\* (caught at line 171) both lead to the next iteration.
after_handler(k, outcome) == [k EXCEPT !.wpc = "iter"]

\* What a handler may do: the default one (jsonl_handler.write_message, which
\* catches its own errors, and print) returns; a custom one returns or raises.
HandlerOutcomes(h) == IF h = "custom" THEN {"return", "raise"} ELSE {"return"}

\* One iteration of `for message in self.consumer` up to the handler call:
\* the consumer hands over the decoded message at the next offset or raises
\* (the deserializer's error, or event = "kafka_error"); the stop signal is
\* looked at once a message has arrived.
worker_next(k, event) ==
    LET offset == Len(k.delivered) + 1
        d == value_deserializer(event)
        got == [k EXCEPT !.delivered =
                             Append(@, [raw |-> event, stop |-> k.stop_event])]
    IN  CASE k.consumer = "closed" -> [kc |-> worker_exits(k), res |-> "closed"]
          [] event = "kafka_error" -> [kc |-> worker_exits(k), res |-> "kafka_error"]
          [] d.exc # "none" -> [kc |-> worker_exits(got), res |-> "decode_error"]
          [] k.stop_event -> [kc |-> worker_exits(got), res |-> "stop_event"]
          [] ~Truthy(d.value) -> [kc |-> got, res |-> "no_value"]
          [] OTHER -> [kc |-> dispatch(got, offset), res |-> "dispatched"]

\* ------------------------------------------------------------- AlarmManager

\* The fields __init__ sets, the position of the renewal worker (rpc) and of
\* the thread that calls initialize() and shutdown() (pc), and the record of
\* the call in progress: the handler and the topic initialize() holds, the
\* steps it has passed, is_running at its start, whether it started the
\* renewal worker, and the steps of the last shutdown() in order (trace).
\* Of the renewal worker: the calls of its current cycle in order (cycle) and
\* whether the cycle before it failed (prev_failed); and of its
\* renew_subscription() call, taken statement by statement: where it is, the
\* identifier that passed `if not self.subscription_id` and the identifier
\* the f-string put into the url.
AlarmManagerInit ==
    [is_running |-> FALSE,
     renewal_thread |-> "None",
     stop_event |-> FALSE,
     rpc |-> "none",
     pc |-> "idle",
     handler |-> "None",
     topic |-> None,
     steps |-> {},
     entry_running |-> FALSE,
     started_renewal |-> FALSE,
     last_call |-> "none",
     trace |-> << >>,
     cycle |-> << >>,
     prev_failed |-> FALSE,
     renew |-> [pc |-> "none", checked |-> None, url_id |-> ""]]

renewal_thread_is_alive(a) == a.renewal_thread = "alive"

\* _start_renewal_thread: nothing while the worker is alive.
start_renewal_thread(a) ==
    IF a.renewal_thread # "None" /\ renewal_thread_is_alive(a)
    THEN a
    ELSE [a EXCEPT !.stop_event = FALSE,
                   !.renewal_thread = "alive",
                   !.rpc = "wait",
                   !.started_renewal = TRUE,
                   !.cycle = << >>,
                   !.prev_failed = FALSE]

\* A worker that goes into a cycle where it should end.
renewal_exits_StartsCycle(a) == [a EXCEPT !.rpc = "refresh", !.cycle = << >>]

\* The end of the renewal worker thread.
renewal_exits(a) ==
    [a EXCEPT !.renewal_thread = "dead", !.rpc = "none",
              !.cycle = << >>, !.prev_failed = FALSE]

\* A call of the cycle raised, or the renew answered False.
cycle_failed(c) ==
    \E i \in 1..Len(c) : c[i] \in {"refresh_raise", "renew_raise", "renew_false"}

\* The wait timed out with the stop signal clear: the try block begins.
renewal_cycle_begin(a) ==
    [a EXCEPT !.rpc = "refresh", !.cycle = << >>, !.prev_failed = cycle_failed(a.cycle)]

\* An except clause that gives the worker up.
renewal_except_Exits(a) == renewal_exits(a)

\* The except clause of the cycle: two log lines, and back to the wait.
renewal_except(a) == [a EXCEPT !.rpc = "wait"]

\* token_manager.refresh_access_token() of the cycle, called and over.
renewal_refresh_done(a, exc) ==
    IF exc # "none"
    THEN renewal_except([a EXCEPT !.cycle = @ \o <<"refresh_call", "refresh_raise">>])
    ELSE [a EXCEPT !.cycle = @ \o <<"refresh_call", "refresh_return">>,
                   !.rpc = "renew"]

\* alarm_subscription.renew_subscription() of the cycle, called and over; its
\* result is not looked at.
renewal_renew_done(a, ret, exc) ==
    IF exc # "none"
    THEN renewal_except([a EXCEPT !.cycle = @ \o <<"renew_call", "renew_raise">>])
    ELSE [a EXCEPT !.cycle = @ \o <<"renew_call",
                                     IF ret = "True" THEN "renew_true" ELSE "renew_false">>,
                   !.rpc = "wait"]

\* initialize() as it begins.
initialize_enter(a, handler) ==
    [a EXCEPT !.pc = "init_token",
              !.handler = handler,
              !.topic = None,
              !.steps = {},
              !.entry_running = a.is_running,
              !.started_renewal = FALSE]

\* An initialize() that marks the manager running although it failed.
initialize_raise_MarksRunning(a) ==
    [a EXCEPT !.pc = "idle", !.last_call = "initialize",
              !.handler = "None", !.topic = None, !.is_running = TRUE]

\* The except clause of initialize(): logged and raised again.
initialize_raise(a) ==
    [a EXCEPT !.pc = "idle", !.last_call = "initialize",
              !.handler = "None", !.topic = None]

\* An initialize() that starts the renewal worker as soon as the subscription
\* exists.
after_create_StartsRenewal(a, topic) ==
    start_renewal_thread(
        [a EXCEPT !.topic = topic, !.steps = @ \cup {"create"}, !.pc = "init_handler"])

\* initialize() after create_subscription() gave a topic: on to the handler.
after_create(a, topic) ==
    [a EXCEPT !.topic = topic, !.steps = @ \cup {"create"}, !.pc = "init_handler"]

\* Steps 5 and the flag: the renewal worker, then is_running.
initialize_finish(a) ==
    [start_renewal_thread(a) EXCEPT !.is_running = TRUE,
                                    !.pc = "idle",
                                    !.last_call = "initialize",
                                    !.handler = "None",
                                    !.topic = None]

\* shutdown() as it begins, on a running manager.
shutdown_enter(a) == [a EXCEPT !.pc = "sd_renewal", !.trace = << >>]

\* A step of shutdown() done.
shutdown_step(a, event, pc) == [a EXCEPT !.trace = Append(@, event), !.pc = pc]

\* The except clause of shutdown(): the error is logged, the rest is skipped.
shutdown_except(a) == [a EXCEPT !.pc = "idle", !.last_call = "shutdown"]

\* A shutdown() that ends without marking the manager not running.
shutdown_finish_StaysRunning(a) ==
    [a EXCEPT !.pc = "idle", !.last_call = "shutdown"]

\* The end of the try block of shutdown().
shutdown_finish(a) ==
    [a EXCEPT !.is_running = FALSE,
              !.trace = Append(@, "is_running_false"),
              !.pc = "idle",
              !.last_call = "shutdown"]

\* A status that takes the consumer to run whenever the manager does.
get_status_AssumesConsuming(a, k, s) ==
    LET info == get_subscription_info(s)
    IN  [is_running |-> a.is_running,
         kafka_consuming |-> a.is_running,
         subscription_id |-> info.subscriptionId,
         topic_id |-> info.topicId,
         expires_at |-> info.expiresAt]

get_status(a, k, s) ==
    LET info == get_subscription_info(s)
    IN  [is_running |-> a.is_running,
         kafka_consuming |-> is_consuming(k),
         subscription_id |-> info.subscriptionId,
         topic_id |-> info.topicId,
         expires_at |-> info.expiresAt]

\* ------------------------------------------------- TokenManager, as actions

Init ==
    /\ tm = TokenManagerInit
    /\ now = 0
    /\ sub = AlarmSubscriptionInit
    /\ kc = NokiaKafkaConsumerInit
    /\ am = AlarmManagerInit
    /\ cls = TokenManagerClassInit
    /\ th = TokenLockInit
    /\ last = [op |-> "init"]

Tick ==
    /\ now < MaxNow
    /\ now' = now + 1
    /\ last' = [op |-> "tick"]
    /\ UNCHANGED <<tm, sub, kc, am, cls, th>>

\* get_initial_token() answered by one of the responses R.
GetInitialTokenFrom(R) ==
    \E resp \in R :
        LET r == get_initial_token(tm, resp, now)
        IN  /\ tm' = r.tm
            /\ last' = [op |-> "get_initial_token", resp |-> r.resp, exc |-> r.exc]
            /\ UNCHANGED <<now, sub, kc, am, cls, th>>

GetInitialToken == GetInitialTokenFrom(TokenResponses)

RefreshAccessToken ==
    \E resp \in TokenResponses :
        LET r == refresh_access_token(tm, resp, now)
        IN  /\ tm' = r.tm
            /\ last' = [op |-> "refresh_access_token", resp |-> r.resp, exc |-> r.exc]
            /\ UNCHANGED <<now, sub, kc, am, cls, th>>

IsTokenValid ==
    /\ last' = [op |-> "is_token_valid", ret |-> BoolStr(is_token_valid(tm, now))]
    /\ UNCHANGED <<tm, now, sub, kc, am, cls, th>>

GetAuthorizationHeader ==
    LET r == get_authorization_header(tm)
    IN  /\ last' = [op |-> "get_authorization_header", exc |-> r.exc,
                    header |-> r.header]
        /\ UNCHANGED <<tm, now, sub, kc, am, cls, th>>

NextToken ==
    \/ Tick
    \/ GetInitialToken
    \/ RefreshAccessToken
    \/ IsTokenValid
    \/ GetAuthorizationHeader

SpecToken == Init /\ [][NextToken]_vars

\* ------------------------------------------------------ TokenManager claims

AcquireOps == {"get_initial_token", "refresh_access_token"}

\* The credential fields of the data model.
Credential(t) ==
    <<t.access_token, t.refresh_token, t.token_type, t.expires_in, t.token_expiry>>

\* Every credential field of t is the one the response body gives, with the
\* expiry computed from its expires_in at the instant clock.
AllFromResponse(t, body, clock) ==
    /\ t.access_token = DictGet(body, "access_token", None)
    /\ t.refresh_token = DictGet(body, "refresh_token", None)
    /\ t.token_type = DictGet(body, "token_type", Str("Bearer"))
    /\ t.expires_in = DictGet(body, "expires_in", Num(3600))
    /\ t.expires_in.t = "num"
    /\ t.token_expiry = Num(clock + t.expires_in.n)

\* C1: after get_initial_token() or refresh_access_token(), whatever the
\* response, the credential fields are all taken from the new response or all
\* equal to their values before the call, and a call that fails leaves them as
\* they were.
C1_AllOrNothing ==
    [][last'.op \in AcquireOps =>
          /\ \/ Credential(tm') = Credential(tm)
             \/ /\ last'.resp.kind = "ok"
                /\ AllFromResponse(tm', last'.resp.body, now)
          /\ (last'.exc # "none" => Credential(tm') = Credential(tm))]_vars

\* C2: is_token_valid() returns true exactly when an access token and an
\* expiry are stored and now < expiry - 60 s, and a credential acquired with
\* expires_in <= 60 is invalid right after its acquisition.
C2_ValidIffBeforeMargin ==
    /\ last.op = "is_token_valid" =>
          (last.ret = "True" <=>
              /\ tm.access_token # None
              /\ tm.token_expiry # None
              /\ now < tm.token_expiry.n - 60)
    /\ (last.op \in AcquireOps /\ last.exc = "none" /\ tm.expires_in.n <= 60) =>
          ~is_token_valid(tm, now)

\* is_token_valid() was asked at exactly expiry - 60 s, and answered false.
C2_Witness ==
    /\ last.op = "is_token_valid"
    /\ tm.access_token # None
    /\ tm.token_expiry # None
    /\ now = tm.token_expiry.n - 60
    /\ last.ret = "False"

\* C13: refresh_access_token() with no refresh token stored fails with
\* ValueError before any request is sent, and changes no credential field.
C13_RefreshWithoutTokenFails ==
    [][(last'.op = "refresh_access_token" /\ ~Truthy(tm.refresh_token)) =>
          /\ last'.exc = "ValueError"
          /\ last'.resp = NotSent
          /\ Credential(tm') = Credential(tm)]_vars

\* A credential with an access token and no refresh token was asked to
\* refresh.
C13_Witness ==
    /\ last.op = "refresh_access_token"
    /\ last.exc = "ValueError"
    /\ last.resp = NotSent
    /\ tm.access_token = Str("T1")
    /\ tm.refresh_token = None
    /\ tm.token_expiry # None

\* C19: get_authorization_header() returns "<token_type> <access_token>" of
\* the stored credential ("Bearer T1" for access token T1 of type Bearer), and
\* fails with ValueError while no credential has been acquired.
C19_HeaderOfStoredCredential ==
    last.op = "get_authorization_header" =>
        /\ last.exc = "none" =>
              /\ Truthy(tm.access_token)
              /\ last.header = Str(tm.token_type.s \o " " \o tm.access_token.s)
        /\ (tm.access_token = Str("T1") /\ tm.token_type = Str("Bearer")) =>
              (last.exc = "none" /\ last.header = Str("Bearer T1"))
        /\ tm = TokenManagerInit =>
              (last.exc = "ValueError" /\ last.header = None)

\* The header of a credential of another type than Bearer was asked for.
C19_Witness ==
    /\ last.op = "get_authorization_header"
    /\ last.exc = "none"
    /\ tm.token_type = Str("MAC")
    /\ last.header = Str("MAC T2")

\* ----------------------------------------- TokenManager.__new__, as actions

Construct ==
    \E t \in Threads :
        /\ cls.pc[t] = "idle"
        /\ cls' = [cls EXCEPT !.pc[t] = "check1"]
        /\ last' = [op |-> "TokenManager", thread |-> t]
        /\ UNCHANGED <<tm, now, sub, kc, am, th>>

NewCheck1 ==
    \E t \in Threads :
        /\ cls.pc[t] = "check1"
        /\ cls' = new_check1(cls, t)
        /\ last' = [op |-> "new_check1", thread |-> t]
        /\ UNCHANGED <<tm, now, sub, kc, am, th>>

NewAcquire ==
    \E t \in Threads :
        /\ cls.pc[t] = "acquire"
        /\ cls.lock = 0
        /\ cls' = new_acquire(cls, t)
        /\ last' = [op |-> "new_acquire", thread |-> t]
        /\ UNCHANGED <<tm, now, sub, kc, am, th>>

NewCheck2 ==
    \E t \in Threads :
        /\ cls.pc[t] = "check2"
        /\ cls' = new_check2(cls, t)
        /\ last' = [op |-> "new_check2", thread |-> t]
        /\ UNCHANGED <<tm, now, sub, kc, am, th>>

NewCreate ==
    \E t \in Threads :
        /\ cls.pc[t] = "create"
        /\ cls' = new_create(cls, t)
        /\ last' = [op |-> "new_create", thread |-> t]
        /\ UNCHANGED <<tm, now, sub, kc, am, th>>

NewRelease ==
    \E t \in Threads :
        /\ cls.pc[t] = "release"
        /\ cls' = new_release(cls, t)
        /\ last' = [op |-> "new_release", thread |-> t]
        /\ UNCHANGED <<tm, now, sub, kc, am, th>>

NewReturn ==
    \E t \in Threads :
        /\ cls.pc[t] = "return"
        /\ cls' = new_return(cls, t)
        /\ last' = [op |-> "new_return", thread |-> t]
        /\ UNCHANGED <<tm, now, sub, kc, am, th>>

NextSingleton ==
    \/ Construct
    \/ NewCheck1
    \/ NewAcquire
    \/ NewCheck2
    \/ NewCreate
    \/ NewRelease
    \/ NewReturn

SpecSingleton == Init /\ [][NextSingleton]_vars

\* ------------------------------- TokenManager(), __new__ and then __init__

\* A thread constructs again once its last construction is over.
ConstructAgain ==
    /\ Construct
    /\ \A t \in Threads : cls'.pc[t] # cls.pc[t] => cls.ipc[t] = "none"

NewReturnInit ==
    \E t \in Threads :
        /\ cls.pc[t] = "return"
        /\ cls' = new_return_init(cls, t)
        /\ last' = [op |-> "new_return", thread |-> t]
        /\ UNCHANGED <<tm, now, sub, kc, am, th>>

InitCheck ==
    \E t \in Threads :
        /\ cls.ipc[t] = "check"
        /\ cls' = init_check(cls, t)
        /\ last' = [op |-> "init_check", thread |-> t]
        /\ UNCHANGED <<tm, now, sub, kc, am, th>>

InitFields ==
    \E t \in Threads :
        /\ cls.ipc[t] = "fields"
        /\ cls' = init_fields(cls, t)
        /\ last' = [op |-> "init_fields", thread |-> t]
        /\ UNCHANGED <<tm, now, sub, kc, am, th>>

\* A thread whose construction is over uses the instance.
StoreCredential ==
    /\ \E t \in Threads : cls.got[t] # 0 /\ cls.pc[t] = "idle" /\ cls.ipc[t] = "none"
    /\ cls.initialized
    /\ ~cls.credential
    /\ cls' = store_credential(cls)
    /\ last' = [op |-> "store_credential"]
    /\ UNCHANGED <<tm, now, sub, kc, am, th>>

NextConstruct ==
    \/ ConstructAgain
    \/ NewCheck1
    \/ NewAcquire
    \/ NewCheck2
    \/ NewCreate
    \/ NewRelease
    \/ NewReturnInit
    \/ InitCheck
    \/ InitFields
    \/ StoreCredential

SpecConstruct == Init /\ [][NextConstruct]_vars

C18_OneInstance ==
    /\ cls.objects <= 1
    /\ \A t \in Threads : cls.got[t] # 0 => cls.got[t] = cls.instance
    /\ \A t, u \in Threads :
          (cls.got[t] # 0 /\ cls.got[u] # 0) => cls.got[t] = cls.got[u]

\* A thread that saw no instance at its first look holds the lock and finds
\* the instance another thread has made and returned meanwhile.
C18_Witness ==
    \E t, u \in Threads :
        /\ t # u
        /\ cls.pc[t] = "check2"
        /\ cls.instance = 1
        /\ cls.got[u] = 1

\* -------------------------------------- TokenManager's methods, as threads

MethodCall ==
    \E t \in Callers : \E path \in PathNames :
        /\ th.run[t].path = "none"
        /\ th' = [th EXCEPT !.run[t] = [path |-> path, i |-> 1]]
        /\ last' = [op |-> "call", thread |-> t]
        /\ UNCHANGED <<tm, now, sub, kc, am, cls>>

TokenLockAcquire ==
    \E t \in Callers :
        /\ AtStep(th, t)
        /\ StepOf(th, t).k = "acquire"
        /\ th.token_lock = 0
        /\ th' = lock_acquire(th, t)
        /\ last' = [op |-> "acquire", thread |-> t]
        /\ UNCHANGED <<tm, now, sub, kc, am, cls>>

TokenLockRelease ==
    \E t \in Callers :
        /\ AtStep(th, t)
        /\ StepOf(th, t).k = "release"
        /\ th' = lock_release(th, t)
        /\ last' = [op |-> "release", thread |-> t]
        /\ UNCHANGED <<tm, now, sub, kc, am, cls>>

FieldAccess ==
    \E t \in Callers :
        /\ AtStep(th, t)
        /\ StepOf(th, t).k \in {"read", "write"}
        /\ th' = field_access(th, t)
        /\ last' = [op |-> "access", thread |-> t]
        /\ UNCHANGED <<tm, now, sub, kc, am, cls>>

MethodReturn ==
    \E t \in Callers :
        /\ th.run[t].path # "none"
        /\ ~AtStep(th, t)
        /\ th' = [th EXCEPT !.run[t] = [path |-> "none", i |-> 0]]
        /\ last' = [op |-> "return", thread |-> t]
        /\ UNCHANGED <<tm, now, sub, kc, am, cls>>

NextLock ==
    \/ MethodCall
    \/ TokenLockAcquire
    \/ TokenLockRelease
    \/ FieldAccess
    \/ MethodReturn

SpecLock == Init /\ [][NextLock]_vars

\* ------------------------- TokenManager's methods, with the values read

MethodCallValue ==
    \E t \in Callers : \E path \in PathNames :
        /\ th.run[t].path = "none"
        /\ path \in InstallPaths => th.issued < MaxIssued
        /\ th' = method_call(th, t, path)
        /\ last' = [op |-> "call", thread |-> t]
        /\ UNCHANGED <<tm, now, sub, kc, am, cls>>

FieldAccessValue ==
    \E t \in Callers :
        /\ AtStep(th, t)
        /\ StepOf(th, t).k \in {"read", "write"}
        /\ th' = field_access_value(th, t)
        /\ last' = [op |-> "access", thread |-> t]
        /\ UNCHANGED <<tm, now, sub, kc, am, cls>>

MethodReturnValue ==
    \E t \in Callers :
        /\ th.run[t].path # "none"
        /\ ~AtStep(th, t)
        /\ th' = method_return(th, t)
        /\ last' = [op |-> "return", thread |-> t]
        /\ UNCHANGED <<tm, now, sub, kc, am, cls>>

NextAccessors ==
    \/ MethodCallValue
    \/ TokenLockAcquire
    \/ TokenLockRelease
    \/ FieldAccessValue
    \/ MethodReturnValue

SpecAccessors == Init /\ [][NextAccessors]_vars

\* The fields thread t has read in its call so far belong to one credential.
OneCredential(t, F) ==
    \A f, g \in F :
        (th.seen[t][f] # -1 /\ th.seen[t][g] # -1) => th.seen[t][f] = th.seen[t][g]

FirstToken ==
    /\ th.stored = 0
    /\ th' = first_token(th)
    /\ last' = [op |-> "first_token"]
    /\ UNCHANGED <<tm, now, sub, kc, am, cls>>

RefreshRead ==
    \E t \in Callers :
        /\ th.ref[t].pc = "idle"
        /\ th.token_lock = 0
        /\ th.issued < MaxIssued
        /\ th' = refresh_read(th, t)
        /\ last' = [op |-> "refresh_read", thread |-> t]
        /\ UNCHANGED <<tm, now, sub, kc, am, cls>>

RefreshSend ==
    \E t \in Callers :
        /\ th.ref[t].pc = "send"
        /\ th.issued < MaxIssued
        /\ th' = refresh_send(th, t)
        /\ last' = [op |-> "refresh_send", thread |-> t,
                    token |-> th.ref[t].token, stored |-> th.stored]
        /\ UNCHANGED <<tm, now, sub, kc, am, cls>>

RefreshInstall ==
    \E t \in Callers :
        /\ th.ref[t].pc = "install"
        /\ th.token_lock = 0
        /\ th' = refresh_install(th, t)
        /\ last' = [op |-> "refresh_install", thread |-> t]
        /\ UNCHANGED <<tm, now, sub, kc, am, cls>>

NextRefreshRace ==
    \/ FirstToken
    \/ RefreshRead
    \/ RefreshSend
    \/ RefreshInstall

SpecRefreshRace == Init /\ [][NextRefreshRace]_vars

\* C30: with refresh_access_token() calls running concurrently, once all of
\* them have returned the stored credential is the one the token endpoint
\* issued last, and no call sends a refresh token that a refresh which has
\* already returned replaced.
C30_NoLostRefresh ==
    /\ (\A t \in Callers : th.ref[t].pc = "idle") => th.stored = th.issued
    /\ last.op = "refresh_send" => last.token = last.stored

\* C20: every read and every write of a credential field by a method of
\* TokenManager is made by a thread that holds the token lock.
C20_AccessUnderLock == th.access.held

\* --------------------------------------------- AlarmSubscription, as actions

\* The credentials the subscription calls are tried with: one with and one
\* without an access token.
FewTokenResponses ==
    {[kind |-> "ok",
      body |-> [access_token |-> a, refresh_token |-> Str("R1"),
                token_type |-> Absent, expires_in |-> Absent]] :
        a \in {Absent, Str("T1")}}

CreateSubscriptionFrom(Responses) ==
    \E resp \in Responses :
        LET r == create_subscription(sub, tm, resp)
        IN  /\ sub' = r.sub
            /\ last' = [op |-> "create_subscription", resp |-> r.resp,
                        ret |-> r.ret, exc |-> r.exc]
            /\ UNCHANGED <<tm, now, kc, am, cls, th>>

CreateSubscription == CreateSubscriptionFrom(CreateResponses)

RenewSubscription ==
    \E resp \in StatusResponses :
        LET r == renew_subscription(sub, tm, resp)
        IN  /\ sub' = r.sub
            /\ last' = [op |-> "renew_subscription", resp |-> r.resp,
                        ret |-> r.ret, exc |-> r.exc]
            /\ UNCHANGED <<tm, now, kc, am, cls, th>>

DeleteSubscription ==
    \E resp \in StatusResponses :
        LET r == delete_subscription(sub, tm, resp)
        IN  /\ sub' = r.sub
            /\ last' = [op |-> "delete_subscription", resp |-> r.resp,
                        ret |-> r.ret, exc |-> r.exc]
            /\ UNCHANGED <<tm, now, kc, am, cls, th>>

GetSubscriptionInfo ==
    /\ last' = [op |-> "get_subscription_info", info |-> get_subscription_info(sub)]
    /\ UNCHANGED <<tm, now, sub, kc, am, cls, th>>

NextSub ==
    \/ GetInitialTokenFrom(FewTokenResponses)
    \/ CreateSubscription
    \/ RenewSubscription
    \/ DeleteSubscription
    \/ GetSubscriptionInfo

SpecSub == Init /\ [][NextSub]_vars

\* -------------------------------------------- NokiaKafkaConsumer, as actions

SetMessageHandler ==
    /\ kc.caller = "idle"
    /\ \E handler \in {"custom", "unnamed"} :
          LET r == set_message_handler(kc, handler)
          IN  /\ kc' = r.kc
              /\ last' = [op |-> "set_message_handler", exc |-> r.exc]
    /\ UNCHANGED <<tm, now, sub, am, cls, th>>

StartConsuming ==
    /\ kc.caller = "idle"
    /\ \E topic \in {Str("Top1"), Str("Top2")}, created \in BOOLEAN :
          LET r == start_consuming(kc, topic, created)
          IN  /\ kc' = r.kc
              /\ last' = [op |-> "start_consuming", topic |-> topic,
                          exc |-> r.exc, started |-> r.started]
    /\ UNCHANGED <<tm, now, sub, am, cls, th>>

\* stop_consuming returns at once without a live worker, and otherwise goes
\* on to the join.
StopConsuming ==
    /\ kc.caller = "idle"
    /\ \E closed \in BOOLEAN :
          /\ kc' = stop_consuming(kc, closed)
          /\ last' = [op |-> "stop_consuming",
                      res |-> IF kc'.caller = "joining" THEN "joining" ELSE "not_running"]
    /\ UNCHANGED <<tm, now, sub, am, cls, th>>

\* join(timeout=5) returns when the worker has ended, or with the worker
\* alive when the five seconds are over.
StopConsumingJoin ==
    /\ kc.caller = "joining"
    /\ \E timeout_over \in BOOLEAN : join(consumer_thread_is_alive(kc), timeout_over)
    /\ kc' = [kc EXCEPT !.caller = "idle"]
    /\ last' = [op |-> "stop_consuming_join",
                res |-> IF consumer_thread_is_alive(kc) THEN "timeout" ELSE "stopped"]
    /\ UNCHANGED <<tm, now, sub, am, cls, th>>

\* One iteration of the worker, the consumer answering with one of Events.
WorkerNextOn(Events) ==
    /\ consumer_thread_is_alive(kc)
    /\ kc.wpc = "iter"
    /\ \E event \in Events :
          /\ (event \in RawMessages /\ kc.consumer # "closed")
                => Len(kc.delivered) < MaxMessages
          /\ LET r == worker_next(kc, event)
             IN  /\ kc' = r.kc
                 /\ last' = [op |-> "worker_next", res |-> r.res]
    /\ UNCHANGED <<tm, now, sub, am, cls, th>>

WorkerNext == WorkerNextOn(RawMessages \cup {"kafka_error"})

WorkerHandlerDone ==
    /\ \E c \in kc.running, outcome \in {"return", "raise"} :
          /\ outcome \in HandlerOutcomes(c.handler)
          /\ kc' = after_handler(
                      [kc EXCEPT !.running = @ \ {c},
                                 !.calls = Append(@, [offset |-> c.offset, ev |-> outcome,
                                                      handler |-> c.handler])],
                      outcome)
          /\ last' = [op |-> "handler_done", offset |-> c.offset, outcome |-> outcome]
    /\ UNCHANGED <<tm, now, sub, am, cls, th>>

NextConsumer ==
    \/ SetMessageHandler
    \/ StartConsuming
    \/ StopConsuming
    \/ StopConsumingJoin
    \/ WorkerNext
    \/ WorkerHandlerDone

SpecConsumer == Init /\ [][NextConsumer]_vars

\* ------------------------------------ start_consuming() by several threads

StartCheck ==
    \E t \in Starters :
        /\ kc.starter[t] = "idle"
        /\ kc.started < MaxStarted
        /\ kc' = start_check(kc, t)
        /\ last' = [op |-> "start_check", thread |-> t,
                    res |-> IF kc'.starter[t] = "create" THEN "go_on" ELSE "running"]
        /\ UNCHANGED <<tm, now, sub, am, cls, th>>

StartThread ==
    \E t \in Starters :
        /\ kc.starter[t] = "create"
        /\ kc' = start_thread(kc, t)
        /\ last' = [op |-> "start_thread", thread |-> t]
        /\ UNCHANGED <<tm, now, sub, am, cls, th>>

\* stop_consuming() with its join over: the worker may or may not have ended.
StopSignal ==
    /\ kc' = stop_signal(kc)
    /\ last' = [op |-> "stop_signal",
                res |-> IF kc.thread_ref \in kc.live THEN "signalled" ELSE "not_running"]
    /\ UNCHANGED <<tm, now, sub, am, cls, th>>

\* A worker ends: of the stop signal, of the closed consumer or of an error
\* of the broker.
WorkerEnds ==
    \E w \in kc.live :
        /\ kc' = worker_ends(kc, w)
        /\ last' = [op |-> "worker_ends", worker |-> w]
        /\ UNCHANGED <<tm, now, sub, am, cls, th>>

NextStartRace ==
    \/ StartCheck
    \/ StartThread
    \/ StopSignal
    \/ WorkerEnds

SpecStartRace == Init /\ [][NextStartRace]_vars

\* C35: at most one worker thread is alive.
C35_OneWorker == Cardinality(kc.live) <= 1

\* -------------------------------------------------- AlarmManager, as actions

\* The answers the manager's calls are tried with.
ManagerTokenResponses ==
    {[kind |-> "transport_error"], [kind |-> "http_error", status |-> 401]}
    \cup {[kind |-> "ok",
           body |-> [access_token |-> Str("T1"), refresh_token |-> Str("R1"),
                     token_type |-> Absent, expires_in |-> e]] :
             e \in {Absent, Num(60)}}
    \cup {[kind |-> "ok",
           body |-> [access_token |-> Absent, refresh_token |-> Absent,
                     token_type |-> Absent, expires_in |-> Absent]]}

ManagerCreateResponses ==
    {[kind |-> "transport_error"]}
    \cup {[kind |-> "ok",
           body |-> [enveloped |-> FALSE, subscriptionId |-> Str("S1"),
                     topicId |-> t, expiresAt |-> Num(3400)]] :
             t \in {Absent, Str("Top1")}}

ManagerStatusResponses == {[kind |-> "ok"], [kind |-> "http_error", status |-> 500]}

Initialize ==
    /\ am.pc = "idle"
    /\ \E handler \in {"None", "custom", "unnamed"} :
          am' = initialize_enter(am, handler)
    /\ last' = [op |-> "initialize_enter"]
    /\ UNCHANGED <<tm, now, sub, kc, cls, th>>

\* Step 1: token_manager.initialize() unless the token is valid.
InitEnsureToken ==
    /\ am.pc = "init_token"
    /\ IF is_token_valid(tm, now)
       THEN /\ am' = [am EXCEPT !.steps = @ \cup {"token"}, !.pc = "init_create"]
            /\ last' = [op |-> "initialize_step", step |-> "token"]
            /\ UNCHANGED tm
       ELSE \E resp \in ManagerTokenResponses :
              LET r == token_manager_initialize(tm, resp, now)
              IN  /\ tm' = r.tm
                  /\ IF r.exc # "none"
                     THEN /\ am' = initialize_raise(am)
                          /\ last' = [op |-> "initialize", exc |-> r.exc,
                                      step |-> "token"]
                     ELSE /\ am' = [am EXCEPT !.steps = @ \cup {"token"},
                                              !.pc = "init_create"]
                          /\ last' = [op |-> "initialize_step", step |-> "token"]
    /\ UNCHANGED <<now, sub, kc, cls, th>>

\* Step 2: create_subscription(), and the check of its topic, the
\* subscription endpoint answering with one of Responses.
InitCreateFrom(Responses) ==
    /\ am.pc = "init_create"
    /\ \E resp \in Responses :
          LET r == create_subscription(sub, tm, resp)
          IN  /\ sub' = r.sub
              /\ IF r.exc # "none"
                 THEN /\ am' = initialize_raise(am)
                      /\ last' = [op |-> "initialize", exc |-> r.exc, step |-> "create"]
                 ELSE IF ~Truthy(get_subscription_info(r.sub).topicId)
                 THEN /\ am' = initialize_raise(am)
                      /\ last' = [op |-> "initialize", exc |-> "ValueError",
                                  step |-> "create"]
                 ELSE /\ am' = after_create(am, get_subscription_info(r.sub).topicId)
                      /\ last' = [op |-> "initialize_step", step |-> "create"]
    /\ UNCHANGED <<tm, now, kc, cls, th>>

InitCreate == InitCreateFrom(ManagerCreateResponses)

\* Step 3: the handler, if one was given.
InitHandler ==
    /\ am.pc = "init_handler"
    /\ LET r == IF am.handler # "None"
                THEN set_message_handler(kc, am.handler)
                ELSE [kc |-> kc, exc |-> "none"]
       IN  /\ kc' = r.kc
           /\ IF r.exc # "none"
              THEN /\ am' = initialize_raise(am)
                   /\ last' = [op |-> "initialize", exc |-> r.exc, step |-> "handler"]
              ELSE /\ am' = [am EXCEPT !.steps = @ \cup {"handler"},
                                       !.pc = "init_consume"]
                   /\ last' = [op |-> "initialize_step", step |-> "handler"]
    /\ UNCHANGED <<tm, now, sub, cls, th>>

\* Step 4: start_consuming() on the topic.
InitConsume ==
    /\ am.pc = "init_consume"
    /\ \E created \in BOOLEAN :
          LET r == start_consuming(kc, am.topic, created)
          IN  /\ kc' = r.kc
              /\ IF r.exc # "none"
                 THEN /\ am' = initialize_raise(am)
                      /\ last' = [op |-> "initialize", exc |-> r.exc, step |-> "consume"]
                 ELSE /\ am' = [am EXCEPT !.steps = @ \cup {"consume"},
                                          !.pc = "init_renewal"]
                      /\ last' = [op |-> "initialize_step", step |-> "consume"]
    /\ UNCHANGED <<tm, now, sub, cls, th>>

\* Step 5 and the return.
InitRenewal ==
    /\ am.pc = "init_renewal"
    /\ am' = initialize_finish(am)
    /\ last' = [op |-> "initialize", exc |-> "none", step |-> "renewal"]
    /\ UNCHANGED <<tm, now, sub, kc, cls, th>>

\* shutdown(): a return at once unless running.
Shutdown ==
    /\ am.pc = "idle"
    /\ IF ~am.is_running
       THEN /\ am' = [am EXCEPT !.last_call = "shutdown"]
            /\ last' = [op |-> "shutdown", res |-> "not_running"]
       ELSE /\ am' = shutdown_enter(am)
            /\ last' = [op |-> "shutdown_enter"]
    /\ UNCHANGED <<tm, now, sub, kc, cls, th>>

\* The stop signal for the renewal worker, if it is alive.
ShutdownSignalRenewal ==
    /\ am.pc = "sd_renewal"
    /\ IF am.renewal_thread # "None" /\ renewal_thread_is_alive(am)
       THEN am' = shutdown_step([am EXCEPT !.stop_event = TRUE], "set_stop_event",
                                "sd_join")
       ELSE am' = [am EXCEPT !.pc = "sd_stop"]
    /\ last' = [op |-> "shutdown_step", step |-> "renewal"]
    /\ UNCHANGED <<tm, now, sub, kc, cls, th>>

\* renewal_thread.join(timeout=5): over when the worker has ended or the five
\* seconds have passed.
ShutdownJoinRenewal ==
    /\ am.pc = "sd_join"
    /\ \E timeout_over \in BOOLEAN : join(renewal_thread_is_alive(am), timeout_over)
    /\ am' = shutdown_step(am, IF renewal_thread_is_alive(am)
                                 THEN "join_renewal_timeout"
                                 ELSE "join_renewal", "sd_stop")
    /\ last' = [op |-> "shutdown_step", step |-> "join"]
    /\ UNCHANGED <<tm, now, sub, kc, cls, th>>

\* kafka_consumer.stop_consuming(), up to its join.
ShutdownStopConsumer ==
    /\ am.pc = "sd_stop"
    /\ IF kc.consumer_thread = "None" \/ ~consumer_thread_is_alive(kc)
       THEN /\ kc' = kc
            /\ am' = shutdown_step(am, "stop_consuming", "sd_delete")
       ELSE \E closed \in BOOLEAN :
              /\ kc' = stop_consuming_signal(kc, closed)
              /\ am' = shutdown_step(am, "stop_consuming", "sd_stop_join")
    /\ last' = [op |-> "shutdown_step", step |-> "stop"]
    /\ UNCHANGED <<tm, now, sub, cls, th>>

ShutdownJoinConsumer ==
    /\ am.pc = "sd_stop_join"
    /\ \E timeout_over \in BOOLEAN : join(consumer_thread_is_alive(kc), timeout_over)
    /\ kc' = [kc EXCEPT !.caller = "idle"]
    /\ am' = [am EXCEPT !.pc = "sd_delete"]
    /\ last' = [op |-> "shutdown_step", step |-> "stop_join"]
    /\ UNCHANGED <<tm, now, sub, cls, th>>

\* alarm_subscription.delete_subscription() and the end of shutdown().
ShutdownDelete ==
    /\ am.pc = "sd_delete"
    /\ \E resp \in ManagerStatusResponses :
          LET r == delete_subscription(sub, tm, resp)
              a == [am EXCEPT !.trace = Append(@, "delete_subscription")]
          IN  /\ sub' = r.sub
              /\ IF r.exc # "none"
                 THEN /\ am' = shutdown_except(a)
                      /\ last' = [op |-> "shutdown", res |-> "error", exc |-> r.exc]
                 ELSE /\ am' = shutdown_finish(a)
                      /\ last' = [op |-> "shutdown", res |-> "complete", ret |-> r.ret]
    /\ UNCHANGED <<tm, now, kc, cls, th>>

\* The renewal worker at its wait: out of the loop once the stop signal is
\* set, into a cycle once the thirty minutes have passed.
RenewalWake ==
    /\ renewal_thread_is_alive(am)
    /\ am.rpc = "wait"
    /\ am' = IF am.stop_event THEN renewal_exits(am) ELSE renewal_cycle_begin(am)
    /\ last' = [op |-> "renewal_wake"]
    /\ UNCHANGED <<tm, now, sub, kc, cls, th>>

\* The cycle's refresh_access_token(); an error ends the cycle.
RenewalRefresh ==
    /\ renewal_thread_is_alive(am)
    /\ am.rpc = "refresh"
    /\ \E resp \in ManagerTokenResponses :
          LET r == refresh_access_token(tm, resp, now)
          IN  /\ tm' = r.tm
              /\ am' = renewal_refresh_done(am, r.exc)
              /\ last' = [op |-> "renewal_refresh", exc |-> r.exc, resp |-> r.resp]
    /\ UNCHANGED <<now, sub, kc, cls, th>>

\* The cycle's renew_subscription().
RenewalRenew ==
    /\ renewal_thread_is_alive(am)
    /\ am.rpc = "renew"
    /\ \E resp \in ManagerStatusResponses :
          LET r == renew_subscription(sub, tm, resp)
          IN  /\ sub' = r.sub
              /\ am' = renewal_renew_done(am, r.ret, r.exc)
              /\ last' = [op |-> "renewal_renew", exc |-> r.exc, ret |-> r.ret]
    /\ UNCHANGED <<tm, now, kc, cls, th>>

\* get_status(), from any thread at any time.
GetStatus ==
    /\ last' = [op |-> "get_status", status |-> get_status(am, kc, sub)]
    /\ UNCHANGED <<tm, now, sub, kc, am, cls, th>>

NextManager ==
    \/ GetStatus
    \/ Initialize
    \/ InitEnsureToken
    \/ InitCreate
    \/ InitHandler
    \/ InitConsume
    \/ InitRenewal
    \/ Shutdown
    \/ ShutdownSignalRenewal
    \/ ShutdownJoinRenewal
    \/ ShutdownStopConsumer
    \/ ShutdownJoinConsumer
    \/ ShutdownDelete
    \/ RenewalWake
    \/ RenewalRefresh
    \/ RenewalRenew
    \/ WorkerNextOn({"kafka_error"})

SpecManager == Init /\ [][NextManager]_vars

\* ------------------------------------------------- the gateway, as actions

GetTrailList ==
    \E refresh_resp \in ManagerTokenResponses, up \in UpstreamResponses,
       json_is_request_exception \in BOOLEAN :
        LET r == get_trail_list(tm, now, refresh_resp, up, json_is_request_exception)
        IN  /\ tm' = r.tm
            /\ last' = [op |-> "get_trail_list", status |-> r.status,
                        stage |-> r.stage, up |-> r.up]
            /\ UNCHANGED <<now, sub, kc, am, cls, th>>

NextGateway ==
    \/ Tick
    \/ GetInitialTokenFrom(ManagerTokenResponses)
    \/ GetTrailList

SpecGateway == Init /\ [][NextGateway]_vars

\* C28: at the trail endpoint a failed credential refresh and an upstream 401
\* answer as 503, an upstream 404 as 404, an upstream timeout as 504, and
\* every other failure of the upstream request (no connection, another 4xx,
\* a 5xx) as 502.
C28_UpstreamErrorClasses ==
    last.op = "get_trail_list" =>
        /\ last.stage = "refresh" => last.status = 503
        /\ last.stage = "upstream" =>
              CASE last.up.kind = "timeout" -> last.status = 504
                [] last.up.kind = "connection_error" -> last.status = 502
                [] last.up.kind = "bad_json" -> TRUE
                [] last.up.status = 401 -> last.status = 503
                [] last.up.status = 404 -> last.status = 404
                [] last.up.status >= 400 -> last.status = 502
                [] OTHER -> last.status = 200

\* ------------------------------- initialize() and shutdown(), two topics

\* A subscription endpoint that gives each new subscription its own topic.
TopicCreateResponses ==
    {[kind |-> "ok",
      body |-> [enveloped |-> FALSE, subscriptionId |-> Str("S" \o n),
                topicId |-> Str("Top" \o n), expiresAt |-> Num(3400)]] :
        n \in {"1", "2"}}

NextTopic ==
    \/ Initialize
    \/ InitEnsureToken
    \/ InitCreateFrom(TopicCreateResponses)
    \/ InitHandler
    \/ InitConsume
    \/ InitRenewal
    \/ Shutdown
    \/ ShutdownSignalRenewal
    \/ ShutdownJoinRenewal
    \/ ShutdownStopConsumer
    \/ ShutdownJoinConsumer
    \/ ShutdownDelete
    \/ RenewalWake
    \/ WorkerNextOn({"kafka_error"})

SpecTopic == Init /\ [][NextTopic]_vars

\* C32: between the calls of initialize() and shutdown(), a running manager
\* whose consumer is consuming has the consumer on the topic of the stored
\* subscription.
C32_ConsumerOnSubscriptionTopic ==
    (am.pc = "idle" /\ am.is_running /\ is_consuming(kc))
        => kc.topic_id = sub.topic_id

\* ---------------------- renew_subscription() beside delete_subscription()

RenewCheck ==
    /\ am.renew.pc = "none"
    /\ am' = renew_check(am, sub)
    /\ last' = [op |-> "renew_check", passed |-> Truthy(sub.subscription_id)]
    /\ UNCHANGED <<tm, now, sub, kc, cls, th>>

RenewUrl ==
    /\ am.renew.pc = "url"
    /\ am' = renew_url(am, sub)
    /\ last' = [op |-> "renew_url"]
    /\ UNCHANGED <<tm, now, sub, kc, cls, th>>

RenewRequest ==
    /\ am.renew.pc = "request"
    /\ LET r == renew_request(am, tm)
       IN  /\ am' = r.am
           /\ last' = [op |-> "renew_request", sent |-> r.sent,
                       url_id |-> am.renew.url_id, checked |-> am.renew.checked]
    /\ UNCHANGED <<tm, now, sub, kc, cls, th>>

\* The subscription is created, by initialize(), while there is none and
\* before the renewal worker has anything to renew.
RenewRaceCreate ==
    /\ am.renew.pc = "none"
    /\ ~Truthy(sub.subscription_id)
    /\ CreateSubscriptionFrom(TopicCreateResponses)

NextRenewRace ==
    \/ GetInitialTokenFrom(FewTokenResponses)
    \/ RenewRaceCreate
    \/ DeleteSubscription
    \/ RenewCheck
    \/ RenewUrl
    \/ RenewRequest

SpecRenewRace == Init /\ [][NextRenewRace]_vars

\* C34: a renew request that is sent names in its url the identifier that
\* passed the check, which is not null.
C34_RenewNamesCheckedId ==
    (last.op = "renew_request" /\ last.sent)
        => (last.url_id = Format(last.checked) /\ last.url_id # "None")

\* -------------------------------------- the renewal worker, with fairness

NextRenewal ==
    \/ Initialize
    \/ InitEnsureToken
    \/ InitCreate
    \/ InitHandler
    \/ InitConsume
    \/ InitRenewal
    \/ Shutdown
    \/ ShutdownSignalRenewal
    \/ ShutdownJoinRenewal
    \/ ShutdownStopConsumer
    \/ ShutdownJoinConsumer
    \/ ShutdownDelete
    \/ RenewalWake
    \/ RenewalRefresh
    \/ RenewalRenew

\* The worker thread is scheduled: its wait ends with the stop signal or with
\* the thirty minutes, and each of its two requests has a timeout of thirty
\* seconds. Nothing is assumed of the thread that calls initialize() and
\* shutdown().
RenewalFairness ==
    /\ WF_vars(RenewalWake)
    /\ WF_vars(RenewalRefresh)
    /\ WF_vars(RenewalRenew)

SpecRenewal == Init /\ [][NextRenewal]_vars /\ RenewalFairness

\* ------------------------------------------------------ AlarmManager claims

InitializeSteps == {"token", "create", "handler", "consume"}

\* C7: an initialize() that fails at any of its first four steps raises to
\* its caller without having started the renewal worker and with is_running
\* as it was (false, on a manager that was not running); the renewal worker
\* is started only by a call that passed all four steps.
C7_FailedInitializeStartsNothing ==
    /\ (last.op = "initialize" /\ last.exc # "none") =>
          /\ last.step \in InitializeSteps
          /\ ~am.started_renewal
          /\ am.is_running = am.entry_running
          /\ am.pc = "idle"
    /\ am.started_renewal => am.steps = InitializeSteps
    /\ (am.pc \in {"init_token", "init_create", "init_handler", "init_consume",
                   "init_renewal"}) => am.is_running = am.entry_running

\* start_consuming() failed after the subscription was created: no renewal
\* worker, not running.
C7_Witness ==
    /\ last.op = "initialize"
    /\ last.exc # "none"
    /\ last.step = "consume"
    /\ sub.subscription_id = Str("S1")
    /\ am.renewal_thread = "None"
    /\ ~am.is_running

\* Every occurrence of e1 in the trace of the last shutdown() comes before
\* every occurrence of e2.
Before(e1, e2) ==
    \A i, j \in 1..Len(am.trace) :
        (am.trace[i] = e1 /\ am.trace[j] = e2) => i < j

Traced(e) == \E i \in 1..Len(am.trace) : am.trace[i] = e

ShutdownReturned == last.op = "shutdown" /\ last.res # "not_running"

\* The order of the teardown alone.
ShutdownOrder ==
    /\ Before("set_stop_event", "join_renewal")
    /\ Before("set_stop_event", "join_renewal_timeout")
    /\ Before("join_renewal", "stop_consuming")
    /\ Before("join_renewal_timeout", "stop_consuming")
    /\ Before("stop_consuming", "delete_subscription")

\* C8: a shutdown() of a running manager signals and joins the renewal worker
\* before it stops the consumer, stops the consumer before it attempts the
\* delete, and returns with get_status().is_running false.
C8_ShutdownOrderAndStopped ==
    ShutdownReturned =>
        /\ ShutdownOrder
        /\ Traced("stop_consuming")
        /\ Traced("delete_subscription")
        /\ get_status(am, kc, sub).is_running = FALSE

\* C9: an error in a step of shutdown() does not keep the later steps from
\* running: the delete is attempted and the manager is marked not running
\* whatever went wrong before.
C9_BestEffortTeardown ==
    (last.op = "shutdown" /\ last.res = "error") =>
        /\ Traced("delete_subscription")
        /\ Traced("is_running_false")

\* C10: a shutdown() that follows a shutdown(), and any shutdown() of a
\* manager that is not running, returns at once: no stop of the consumer, no
\* delete, no change of state.
C10_SecondShutdownNoOp ==
    [][(/\ am.pc = "idle"
        /\ am.last_call = "shutdown" \/ ~am.is_running
        /\ last'.op \in {"shutdown", "shutdown_enter"}) =>
          /\ last'.op = "shutdown"
          /\ last'.res = "not_running"
          /\ am'.pc = "idle"
          /\ am'.is_running = am.is_running
          /\ UNCHANGED <<tm, sub, kc>>]_vars

\* The calls of a cycle that is over.
CycleOver == renewal_thread_is_alive(am) /\ am.rpc = "wait" /\ am.cycle # << >>

Count(c, e) == Cardinality({i \in 1..Len(c) : c[i] = e})

\* C11: in every renewal cycle the credential refresh is invoked exactly once
\* and the subscription renew exactly once, and the refresh is over before the
\* renew begins.
C11_CycleRefreshThenRenew ==
    CycleOver =>
        /\ Count(am.cycle, "refresh_call") = 1
        /\ Count(am.cycle, "renew_call") = 1
        /\ \E i, j \in 1..Len(am.cycle) :
              /\ am.cycle[i] \in {"refresh_return", "refresh_raise"}
              /\ am.cycle[j] = "renew_call"
              /\ i < j

\* A call of the cycle has just failed.
CycleCallFailed ==
    \/ last.op = "renewal_refresh" /\ last.exc # "none"
    \/ last.op = "renewal_renew" /\ (last.exc # "none" \/ last.ret = "False")

\* C12: a refresh or a renew that fails inside a cycle leaves the renewal
\* worker alive and at its wait, with no second call of either in that cycle,
\* and the step the worker takes from that wait, the stop signal being clear,
\* is the start of the next cycle.
C12_CycleFailureWaitsForNext ==
    /\ [](CycleCallFailed =>
            /\ renewal_thread_is_alive(am)
            /\ am.rpc = "wait"
            /\ Count(am.cycle, "refresh_call") <= 1
            /\ Count(am.cycle, "renew_call") <= 1)
    /\ [][(/\ renewal_thread_is_alive(am)
           /\ am.rpc = "wait"
           /\ cycle_failed(am.cycle)
           /\ ~am.stop_event
           /\ am'.rpc # "wait") =>
             /\ renewal_thread_is_alive(am')
             /\ am'.rpc = "refresh"
             /\ am'.cycle = << >>]_vars

\* The cycle after a failed one has run its refresh.
C12_Witness ==
    /\ renewal_thread_is_alive(am)
    /\ am.prev_failed
    /\ Len(am.cycle) >= 2
    /\ am.cycle[1] = "refresh_call"

\* C22: when the refresh of a renewal cycle is rejected with an
\* authentication-class error, the renewal worker goes on to acquire a new
\* initial credential: the cycle does not end without a get_initial_token().
C22_AuthRejectionFallsBack ==
    (/\ last.op = "renewal_refresh"
     /\ last.exc = "HTTPError"
     /\ last.resp.status \in {400, 401}) =>
        \/ am.rpc # "wait"
        \/ Count(am.cycle, "get_initial_token_call") >= 1

\* C23: AlarmManager.initialize() never starts TokenManager's own refresh
\* thread, whatever credential was stored before it.
C23_NoTokenRefreshThread == tm.refresh_thread # "alive"

\* C27: get_status() changes no component, and its snapshot is the current
\* is_running flag, the liveness of the consumer worker and the current
\* subscription id, topic and expiry.
C27_StatusIsPureSnapshot ==
    [][last'.op = "get_status" =>
          /\ UNCHANGED <<tm, sub, kc, am>>
          /\ last'.status.is_running = am.is_running
          /\ last'.status.kafka_consuming = consumer_thread_is_alive(kc)
          /\ last'.status.subscription_id = sub.subscription_id
          /\ last'.status.topic_id = sub.topic_id
          /\ last'.status.expires_at = sub.expires_at]_vars

\* The status of a running manager whose consumer worker has died.
C27_Witness ==
    /\ last.op = "get_status"
    /\ last.status.is_running
    /\ ~last.status.kafka_consuming
    /\ last.status.subscription_id = Str("S1")
    /\ last.status.topic_id = Str("Top1")

\* initialize() of a manager that was not running has just failed after its
\* create_subscription() returned: no topic in the answer (the ValueError of
\* line 75, the header being there), or a failure of step 3 or 4.
FailedAfterCreate ==
    /\ last.op = "initialize"
    /\ last.exc # "none"
    /\ ~am.entry_running
    /\ \/ last.step \in {"handler", "consume"}
       \/ /\ last.step = "create"
          /\ last.exc = "ValueError"
          /\ get_authorization_header(tm).exc = "none"

\* C36: an initialize() of a manager that is not running, failing after the
\* subscription was created, leaves the fields of the subscription as the
\* create set them and is_running false, and the shutdown() that follows
\* returns at once and leaves the subscription as it is, without a delete.
C36_FailedInitializeLeavesSubscription ==
    /\ [](FailedAfterCreate => (~am.is_running /\ am.pc = "idle"))
    /\ [][FailedAfterCreate' =>
             IF last'.step = "create"
             THEN \E resp \in ManagerCreateResponses :
                     /\ resp.kind = "ok"
                     /\ sub' = create_subscription(sub, tm, resp).sub
             ELSE sub' = sub]_vars
    /\ [][(FailedAfterCreate /\ last'.op \in {"shutdown", "shutdown_enter"}) =>
             /\ last'.op = "shutdown"
             /\ last'.res = "not_running"
             /\ sub' = sub
             /\ ~am'.is_running]_vars

\* A shutdown() that returned at once after an initialize() that failed at
\* start_consuming(): the subscription S1 is still stored.
C36_Witness ==
    /\ last.op = "shutdown"
    /\ last.res = "not_running"
    /\ am.steps = {"token", "create", "handler"}
    /\ ~am.entry_running
    /\ ~am.is_running
    /\ am.renewal_thread = "None"
    /\ sub.subscription_id = Str("S1")
    /\ sub.topic_id = Str("Top1")

\* The last shutdown() that went through its steps marked the manager not
\* running, no initialize() has returned since, and a subscription is stored:
\* its delete was answered with an error.
StoppedWithSubscription ==
    /\ am.pc = "idle"
    /\ am.last_call = "shutdown"
    /\ ~am.is_running
    /\ Traced("is_running_false")
    /\ Truthy(sub.subscription_id)

\* C37: a shutdown() whose delete_subscription() returned False still marks
\* the manager not running and leaves the subscription's id, topic and expiry
\* stored and shown by get_status(); a shutdown() after it returns at once
\* and sends no delete.
C37_FailedDeleteKeepsSubscription ==
    /\ [][(last'.op = "shutdown" /\ last'.res = "complete" /\ last'.ret = "False") =>
             /\ ~am'.is_running
             /\ ~get_status(am', kc', sub').is_running
             /\ sub' = sub
             /\ get_status(am', kc', sub').subscription_id = sub.subscription_id
             /\ get_status(am', kc', sub').topic_id = sub.topic_id
             /\ get_status(am', kc', sub').expires_at = sub.expires_at]_vars
    /\ [][(StoppedWithSubscription /\ last'.op \in {"shutdown", "shutdown_enter"}) =>
             /\ last'.op = "shutdown"
             /\ last'.res = "not_running"
             /\ sub' = sub
             /\ ~am'.is_running]_vars

\* The second shutdown() after an initialize() that passed all its steps: it
\* returned at once, and the subscription the first could not delete is
\* still stored.
C37_Witness ==
    /\ last.op = "shutdown"
    /\ last.res = "not_running"
    /\ am.steps = InitializeSteps
    /\ am.started_renewal
    /\ Traced("delete_subscription")
    /\ Traced("is_running_false")
    /\ ~am.is_running
    /\ sub.subscription_id = Str("S1")
    /\ sub.topic_id = Str("Top1")
    /\ sub.expires_at = Num(3400)

\* C38: a renewal worker whose stop signal is set ends; the signal stays set
\* as long as it lives; and at its wait it ends without another cycle, that
\* is without a call of refresh_access_token() or renew_subscription().
C38_StoppedWorkerEnds ==
    /\ (am.stop_event /\ renewal_thread_is_alive(am)) ~> ~renewal_thread_is_alive(am)
    /\ [][(am.stop_event /\ renewal_thread_is_alive(am) /\ renewal_thread_is_alive(am'))
             => am'.stop_event]_vars
    /\ [][(am.stop_event /\ last'.op = "renewal_wake")
             => (/\ ~renewal_thread_is_alive(am')
                 /\ am'.rpc = "none"
                 /\ tm' = tm
                 /\ sub' = sub)]_vars

\* The worker has ended at its wait, after a shutdown() whose join had given
\* it up while it was in a cycle.
C38_Witness ==
    /\ last.op = "renewal_wake"
    /\ am.stop_event
    /\ am.renewal_thread = "dead"
    /\ Traced("join_renewal_timeout")
    /\ ~am.is_running
    /\ am.pc = "idle"

\* C33: when initialize() has returned without an error, the renewal worker
\* is alive and its stop signal is clear.
C33_RenewalWorkerRunsAfterInitialize ==
    (last.op = "initialize" /\ last.exc = "none")
        => (renewal_thread_is_alive(am) /\ ~am.stop_event)

\* ------------------------------- TokenManager's auto-refresh, as actions

\* What the token endpoint answers to the auto-refresh worker.
AutoRefreshResponses ==
    ManagerTokenResponses
    \cup {[kind |-> "http_error", status |-> c] : c \in {400, 500}}

StartAutoRefresh ==
    /\ tm.caller = "idle"
    /\ tm' = start_auto_refresh(tm)
    /\ last' = [op |-> "start_auto_refresh"]
    /\ UNCHANGED <<now, sub, kc, am, cls, th>>

AutoRefreshWake ==
    /\ tm.refresh_thread = "alive"
    /\ tm.apc = "wait"
    /\ tm' = auto_refresh_wake(tm)
    /\ last' = [op |-> "auto_refresh_wake"]
    /\ UNCHANGED <<now, sub, kc, am, cls, th>>

AutoRefreshCycle ==
    /\ tm.refresh_thread = "alive"
    /\ tm.apc = "cycle"
    /\ \E resp \in AutoRefreshResponses, resp2 \in ManagerTokenResponses :
          LET r == auto_refresh_cycle(tm, resp, resp2, now)
          IN  /\ tm' = r.tm
              /\ last' = [op |-> "auto_refresh_cycle", exc |-> r.exc, resp |-> r.resp]
    /\ UNCHANGED <<now, sub, kc, am, cls, th>>

StopAutoRefresh ==
    /\ tm.caller = "idle"
    /\ tm' = stop_auto_refresh(tm)
    /\ last' = [op |-> "stop_auto_refresh",
                res |-> IF tm'.caller = "joining" THEN "joining" ELSE "not_running"]
    /\ UNCHANGED <<now, sub, kc, am, cls, th>>

\* _refresh_thread.join(timeout=5): over when the worker has ended or the
\* five seconds have passed.
StopAutoRefreshJoin ==
    /\ tm.caller = "joining"
    /\ \E timeout_over \in BOOLEAN : join(tm.refresh_thread = "alive", timeout_over)
    /\ tm' = [tm EXCEPT !.caller = "idle"]
    /\ last' = [op |-> "stop_auto_refresh_join",
                res |-> IF tm.refresh_thread = "alive" THEN "timeout" ELSE "stopped"]
    /\ UNCHANGED <<now, sub, kc, am, cls, th>>

NextAutoRefresh ==
    \/ Tick
    \/ GetInitialTokenFrom(ManagerTokenResponses)
    \/ StartAutoRefresh
    \/ AutoRefreshWake
    \/ AutoRefreshCycle
    \/ StopAutoRefresh
    \/ StopAutoRefreshJoin

SpecAutoRefresh == Init /\ [][NextAutoRefresh]_vars

\* C29: in a cycle of the auto-refresh worker get_initial_token() is called
\* if the refresh failed with an HTTP error of status 400 or 401, and only
\* then.
C29_FallbackOnAuthRejection ==
    last.op = "auto_refresh_cycle" =>
        IF last.exc = "HTTPError" /\ last.resp.status \in {400, 401}
        THEN Count(tm.acycle, "get_initial_token_call") = 1
        ELSE Count(tm.acycle, "get_initial_token_call") = 0

\* ------------------------------------- the stop operations, with fairness

\* The thread that runs the gateway's lifespan is in none of its calls.
MainIdle == am.pc = "idle" /\ kc.caller = "idle" /\ tm.caller = "idle"

ShutdownPcs == {"sd_renewal", "sd_join", "sd_stop", "sd_stop_join", "sd_delete"}

\* That thread is inside stop_consuming(), stop_auto_refresh() or shutdown().
MainStopping ==
    kc.caller = "joining" \/ tm.caller = "joining" \/ am.pc \in ShutdownPcs

\* The lifespan thread makes its calls one after the other.
MainInitialize == MainIdle /\ Initialize

MainShutdown == MainIdle /\ Shutdown

MainStopConsuming == MainIdle /\ StopConsuming

MainStopConsumingJoin == am.pc = "idle" /\ StopConsumingJoin

MainStopAutoRefresh == MainIdle /\ StopAutoRefresh

\* The three workers take part with the steps that look at the stop signal
\* or at the closed connection; a worker in a cycle stays in its request.
NextStop ==
    \/ MainInitialize
    \/ InitEnsureToken
    \/ InitCreate
    \/ InitHandler
    \/ InitConsume
    \/ InitRenewal
    \/ MainShutdown
    \/ ShutdownSignalRenewal
    \/ ShutdownJoinRenewal
    \/ ShutdownStopConsumer
    \/ ShutdownJoinConsumer
    \/ ShutdownDelete
    \/ MainStopConsuming
    \/ MainStopConsumingJoin
    \/ MainStopAutoRefresh
    \/ StopAutoRefreshJoin
    \/ RenewalWake
    \/ AutoRefreshWake
    \/ WorkerNextOn({"kafka_error"})

\* The calling thread goes on running: set() and close() return, each join
\* has its timeout of five seconds and the DELETE request one of thirty.
\* Nothing is assumed of the workers, which may stay where they are for ever.
StopFairness ==
    /\ WF_vars(ShutdownSignalRenewal)
    /\ WF_vars(ShutdownJoinRenewal)
    /\ WF_vars(ShutdownStopConsumer)
    /\ WF_vars(ShutdownJoinConsumer)
    /\ WF_vars(ShutdownDelete)
    /\ WF_vars(MainStopConsumingJoin)
    /\ WF_vars(StopAutoRefreshJoin)

SpecStop == Init /\ [][NextStop]_vars /\ StopFairness

\* A step that is the return of one of the joins.
JoinReturns ==
    \/ last'.op \in {"stop_consuming_join", "stop_auto_refresh_join"}
    \/ (last'.op = "shutdown_step" /\ last'.step \in {"join", "stop_join"})

\* C26: a thread inside stop_consuming(), stop_auto_refresh() or shutdown()
\* comes out of it whatever the workers do, and the return of a join leaves
\* each worker thread as it was, alive if it had not ended.
C26_StopsReturn ==
    /\ MainStopping ~> MainIdle
    /\ [][JoinReturns =>
             /\ kc'.consumer_thread = kc.consumer_thread
             /\ am'.renewal_thread = am.renewal_thread
             /\ tm'.refresh_thread = tm.refresh_thread]_vars

\* shutdown() has returned after both of its joins timed out, and so had
\* stop_auto_refresh() before it: the renewal worker is still in the request
\* of its cycle, the consumer worker in its iteration and the auto-refresh
\* worker at its wait, each with its stop signal set.
C26_Witness ==
    /\ last.op = "shutdown"
    /\ last.res = "complete"
    /\ MainIdle
    /\ Traced("join_renewal_timeout")
    /\ renewal_thread_is_alive(am) /\ am.rpc = "refresh" /\ am.stop_event
    /\ consumer_thread_is_alive(kc) /\ kc.wpc = "iter" /\ kc.stop_event
    /\ tm.refresh_thread = "alive" /\ tm.apc = "wait" /\ tm.stop_event

\* ------------------------------------------------ NokiaKafkaConsumer claims

WorkerInLoop == consumer_thread_is_alive(kc) /\ kc.wpc = "iter"

CallIndexes == 1..Len(kc.calls)

\* The message at offset i decodes to a value the loop hands on, and arrived
\* with the stop signal clear.
Dispatchable(i) ==
    LET m == kc.delivered[i]
        d == value_deserializer(m.raw)
    IN  d.exc = "none" /\ Truthy(d.value) /\ ~m.stop

\* C4: a handler that raises leaves the worker in its loop, and every message
\* the broker delivers after the one the handler raised on is still handed to
\* the handler.
C4_HandlerErrorIsolated ==
    /\ (last.op = "handler_done" /\ last.outcome = "raise") => WorkerInLoop
    /\ \A i \in CallIndexes : \A j \in 1..Len(kc.delivered) :
          (kc.calls[i].ev = "raise" /\ j > kc.calls[i].offset /\ Dispatchable(j)) =>
              \E c \in CallIndexes :
                  c > i /\ kc.calls[c].ev = "call" /\ kc.calls[c].offset = j

\* The handler raised on one message and was called with a later one.
C4_Witness ==
    \E i, j \in CallIndexes :
        /\ i < j
        /\ kc.calls[i].ev = "raise"
        /\ kc.calls[j].ev = "call"
        /\ kc.calls[j].offset = kc.calls[i].offset + 1

\* C5: a message whose payload the deserializer fails on is logged and the
\* worker goes on to the following message: it never ends the worker.
C5_DecodeErrorIsolated ==
    (last.op = "worker_next" /\ last.res = "decode_error") => WorkerInLoop

\* C6: the handler is called in the order of delivery, and each call has ended
\* before the next begins.
C6_DispatchInOrder ==
    /\ Cardinality(kc.running) <= 1
    /\ \A i, j \in CallIndexes :
          (i < j /\ kc.calls[i].ev = "call" /\ kc.calls[j].ev = "call") =>
              /\ kc.calls[i].offset < kc.calls[j].offset
              /\ \E e \in CallIndexes :
                    /\ i < e /\ e < j
                    /\ kc.calls[e].ev \in {"return", "raise"}
                    /\ kc.calls[e].offset = kc.calls[i].offset

\* Two messages went to the default handler, the first call returning before
\* the second began.
C6_Witness ==
    /\ Len(kc.calls) >= 3
    /\ kc.calls[1] = [offset |-> 1, ev |-> "call", handler |-> "default"]
    /\ kc.calls[2] = [offset |-> 1, ev |-> "return", handler |-> "default"]
    /\ kc.calls[3] = [offset |-> 2, ev |-> "call", handler |-> "default"]

\* C24: start_consuming() while the worker is alive creates no consumer and
\* no worker, and leaves the consumer, its topic and its stop signal as they
\* were.
C24_StartWhileRunningNoOp ==
    [][(/\ last'.op = "start_consuming"
        /\ kc.consumer_thread # "None"
        /\ consumer_thread_is_alive(kc)) =>
          /\ kc' = kc
          /\ ~last'.started
          /\ last'.exc = "none"]_vars

\* start_consuming() was asked for another topic than the one the live
\* worker consumes.
C24_Witness ==
    /\ last.op = "start_consuming"
    /\ ~last.started
    /\ last.exc = "none"
    /\ consumer_thread_is_alive(kc)
    /\ ~kc.stop_event
    /\ last.topic # kc.topic_id

\* C25: stop_consuming() with no live worker returns at once: the stop signal
\* is not set and no connection is closed.
C25_StopWhenNotRunningNoOp ==
    [][(/\ last'.op = "stop_consuming"
        /\ kc.consumer_thread = "None" \/ ~consumer_thread_is_alive(kc)) =>
          /\ kc' = kc
          /\ last'.res = "not_running"]_vars

\* stop_consuming() after the worker died of a broker error: the connection
\* is still open and the stop signal clear.
C25_Witness ==
    /\ last.op = "stop_consuming"
    /\ last.res = "not_running"
    /\ kc.consumer_thread = "dead"
    /\ kc.consumer = "open"
    /\ ~kc.stop_event

\* ------------------------------------------------- AlarmSubscription claims

\* C3: delete_subscription() on an active subscription whose remote delete
\* fails returns false and leaves id, topic and expiry as they were; one whose
\* remote delete succeeds returns true and leaves all three null; no delete
\* changes the fields but on that success.
C3_DeleteClearsOnlyOnSuccess ==
    [][last'.op = "delete_subscription" =>
          /\ (Truthy(sub.subscription_id) /\ last'.resp # NotSent) =>
                IF last'.resp.kind = "ok"
                THEN /\ last'.ret = "True"
                     /\ sub'.subscription_id = None
                     /\ sub'.topic_id = None
                     /\ sub'.expires_at = None
                ELSE /\ last'.ret = "False"
                     /\ sub' = sub
          /\ (sub' # sub => (last'.resp # NotSent /\ last'.resp.kind = "ok"))]_vars

\* A remote delete of an active subscription failed, and the id is still held.
C3_Witness ==
    /\ last.op = "delete_subscription"
    /\ last.resp # NotSent
    /\ last.resp.kind = "http_error"
    /\ last.ret = "False"
    /\ sub.subscription_id = Str("S1")
    /\ sub.topic_id = Str("Top1")

\* C14: renew_subscription() and delete_subscription() with no subscription
\* id stored return false, send no request and leave id, topic and expiry as
\* they were.
C14_EmptyRenewDeleteNoOp ==
    [][(/\ last'.op \in {"renew_subscription", "delete_subscription"}
        /\ sub.subscription_id = None) =>
          /\ last'.ret = "False"
          /\ last'.exc = "none"
          /\ last'.resp = NotSent
          /\ sub' = sub]_vars

\* A renew was asked for with an access token stored and no subscription.
C14_Witness ==
    /\ last.op = "renew_subscription"
    /\ last.ret = "False"
    /\ last.resp = NotSent
    /\ sub = AlarmSubscriptionInit
    /\ Truthy(tm.access_token)

\* The expiry a is an instant later than the expiry b.
Later(a, b) == a.t = "num" /\ b.t = "num" /\ a.n > b.n

\* C15: a successful renew_subscription() of an active subscription keeps
\* its id and topic and extends its expiry: get_subscription_info() reports a
\* later expiry after the renew than before it.
C15_RenewExtendsExpiry ==
    [][(/\ last'.op = "renew_subscription"
        /\ Truthy(sub.subscription_id)
        /\ last'.ret = "True") =>
          /\ sub'.subscription_id = sub.subscription_id
          /\ sub'.topic_id = sub.topic_id
          /\ Later(get_subscription_info(sub').expiresAt,
                   get_subscription_info(sub).expiresAt)]_vars

\* C16: renew_subscription() never raises: it returns true on a confirmed
\* remote success and false on every failure.
C16_RenewReturnsBoolean ==
    last.op = "renew_subscription" =>
        /\ last.exc = "none"
        /\ last.ret \in {"True", "False"}
        /\ last.ret = "True" <=> (last.resp # NotSent /\ last.resp.kind = "ok")

\* C17: topic_id is non-null if and only if subscription_id is non-null.
C17_TopicIffSubscription ==
    (sub.topic_id # None) <=> (sub.subscription_id # None)

\* C21: a token response that is a JSON object without access_token, and a
\* subscription response without subscriptionId, make the operation fail and
\* leave the stored credential, respectively the stored id, topic and
\* expiry, as they were.
C21_MalformedResponseMutatesNothing ==
    [][/\ (/\ last'.op = "get_initial_token"
           /\ last'.resp.kind = "ok"
           /\ last'.resp.body.access_token = Absent) =>
             (last'.exc # "none" /\ Credential(tm') = Credential(tm))
       /\ (/\ last'.op = "create_subscription"
           /\ last'.resp.kind = "ok"
           /\ last'.resp.body.subscriptionId = Absent) =>
             (last'.exc # "none" /\ sub' = sub)]_vars

====
